---- MODULE Spec2Model ----
(***************************************************************************)
(* AI Notes Vault: the persistence gateway (services/notes.js over the     *)
(* remote document store and the localStorage fallback), the note editor   *)
(* session (components/NoteEditor.jsx inside pages/Dashboard.jsx) and the  *)
(* search bar (components/SearchBar.jsx over services/ai.js).              *)
(*                                                                         *)
(* SpecGateway runs the gateway's operations as concurrent async calls     *)
(* that interleave at their awaits.  SpecEditor runs one Dashboard with    *)
(* its editor: edits, the two debounce timers, the enrichment runs in      *)
(* flight, the saves and page reloads.  SpecEditorFair is SpecEditor with  *)
(* timers that fire and engine calls that return.  SpecEditorMarkup adds   *)
(* content with markup, SpecEditorRegenerate the regenerate button.        *)
(* SpecSearch runs the Dashboard's search bar over a corpus of notes.      *)
(* SpecNormalize, SpecCosine and SpecEmbedding apply one function of the   *)
(* engine (cleanTextForAI, cosineSimilarity, getEmbedding) to arguments    *)
(* drawn from bounded sets.                                                *)
(***************************************************************************)
EXTENDS Integers, Sequences, FiniteSets, TLC

----------------------------------------------------------------------------
(* Bounds of the model *)

MaxCalls == 3      \* gateway calls issued in one behaviour
MaxTime == 1       \* readings of the gateway's clock: 0..MaxTime
MaxInputs == 4     \* user inputs in one behaviour of the editor: opening it,
                   \* edits, page reloads
MaxTokens == 3     \* pieces of markup and text in a text given to the engine
MaxDim == 2        \* components of a vector given to cosineSimilarity

----------------------------------------------------------------------------
(* JavaScript values *)

UNDEF == "<undefined>"            \* an absent key / undefined string field
NoTags == <<UNDEF>>               \* the tags key is absent
EmbNull == <<"null">>             \* embedding: null
EmbUndef == <<"undefined">>       \* the embedding key is absent

Truthy(s) == s # UNDEF /\ s # ""  \* truthiness of a string-or-undefined value

OrElse(a, b) == IF Truthy(a) THEN a ELSE b    \* a || b on such values

RECURSIVE IndexOf(_, _, _)
IndexOf(arr, x, from) ==          \* Array.prototype.indexOf; 0 when not found
  IF from > Len(arr) THEN 0
  ELSE IF arr[from] = x THEN from
  ELSE IndexOf(arr, x, from + 1)

SelectIdx(arr, Keep(_)) ==        \* filter((v, index) => Keep(index))
  LET F[i \in 0..Len(arr)] ==
        IF i = 0 THEN <<>>
        ELSE IF Keep(i) THEN Append(F[i - 1], arr[i]) ELSE F[i - 1]
  IN F[Len(arr)]

----------------------------------------------------------------------------
(* Contents and the enrichment engine (services/ai.js, mock path)          *)

ShortC == "short memo"
LongA == "<p>Alpha roadmap lists quarterly goals and owners for review.</p>"
LongB == "<p>Gamma budget tracks monthly spend against targets set.</p>"
\* 53 characters of markup around 20 characters of text
MarkupC == "<p><strong>Gamma</strong> <em>budget</em> review.</p>"

Char(str, i) == SubSeq(str, i, i)

AsciiAlpha == "abcdefghijklmnopqrstuvwxyzABCDEFGHIJKLMNOPQRSTUVWXYZ"

AlphaChars == {Char(AsciiAlpha, i) : i \in 1..Len(AsciiAlpha)}

\* the position after the first ">" at or after position i, where a tag ends
AfterGt(s, i) ==
  IF \E j \in i..Len(s) : Char(s, j) = ">"
  THEN 1 + CHOOSE j \in i..Len(s) :
             Char(s, j) = ">" /\ \A k \in i..(j - 1) : Char(s, k) # ">"
  ELSE Len(s) + 1

\* the character references the HTML parser decodes in the model's texts
CharRefs == {<<"&lt;", "<">>, <<"&gt;", ">">>, <<"&amp;", "&">>}

RefAt(s, i) ==
  {r \in CharRefs : i + Len(r[1]) - 1 <= Len(s) /\ SubSeq(s, i, i + Len(r[1]) - 1) = r[1]}

\* tempDiv.innerHTML = html; tempDiv.textContent: a "<" followed by a letter
\* opens a tag and a "</" followed by anything closes one or opens a bogus
\* comment, both dropped up to the next ">" or to the end of the text; a
\* character reference is decoded; any other character is text.  (Quoted
\* attribute values, comments and raw-text elements do not occur in the
\* model's texts.)
RECURSIVE TextFrom(_, _)
TextFrom(s, i) ==
  IF i > Len(s) THEN ""
  ELSE LET ch == Char(s, i)
           nx == IF i < Len(s) THEN Char(s, i + 1) ELSE ""
       IN CASE ch = "<" /\ nx \in AlphaChars -> TextFrom(s, AfterGt(s, i + 1))
            [] ch = "<" /\ nx = "/" /\ i + 2 <= Len(s) -> TextFrom(s, AfterGt(s, i + 2))
            [] ch = "&" /\ RefAt(s, i) # {} ->
                 LET r == CHOOSE r \in RefAt(s, i) : TRUE
                 IN r[2] \o TextFrom(s, i + Len(r[1]))
            [] OTHER -> ch \o TextFrom(s, i + 1)

textContent(html) == TextFrom(html, 1)

\* \s of the regular expressions, on the model's texts
IsSpace(ch) == ch \in {" ", "\n", "\t"}

\* .replace(/\s+/g, ' ').replace(/\n+/g, ' ')
collapseWhitespace(s) ==
  LET F[i \in 0..Len(s)] ==
        IF i = 0 THEN ""
        ELSE IF IsSpace(Char(s, i))
             THEN (IF i > 1 /\ IsSpace(Char(s, i - 1)) THEN F[i - 1] ELSE F[i - 1] \o " ")
             ELSE F[i - 1] \o Char(s, i)
  IN F[Len(s)]

\* String.prototype.trim
trim(s) ==
  LET keep == {i \in 1..Len(s) : ~IsSpace(Char(s, i))}
  IN IF keep = {} THEN ""
     ELSE SubSeq(s, CHOOSE i \in keep : \A j \in keep : i <= j,
                    CHOOSE i \in keep : \A j \in keep : j <= i)

\* cleanTextForAI computed on a text: the text nodes of the markup, whitespace
\* runs collapsed, trimmed
CleanText(html) == trim(collapseWhitespace(textContent(html)))

\* the clean text of the contents the editor works on, computed once
CleanOf == [html \in {ShortC, LongA, LongB, MarkupC} |-> CleanText(html)]

cleanTextForAI(html) ==
  CASE html = UNDEF -> ""
    [] html = "" -> ""
    [] html \in DOMAIN CleanOf -> CleanOf[html]
    [] OTHER -> CleanText(html)

SUMMARY_MIN == 50
TAGS_MIN == 20
SUMMARY_MAX == 150

generateMockSummary(text) ==
  IF Len(text) < 10 THEN "No content to summarize"
  ELSE IF Len(text) <= SUMMARY_MAX THEN text
  ELSE "Note covering topics."

getSummary(text) ==
  LET clean == cleanTextForAI(text) IN
  IF Len(clean) < SUMMARY_MIN
  THEN (IF Len(clean) > 0 THEN clean ELSE "No content to summarize")
  ELSE generateMockSummary(clean)

\* the first words longer than 3 characters, lower-cased, of a clean text
ContentWords(clean) ==
  CASE clean = cleanTextForAI(LongA) -> <<"alpha", "roadmap">>
    [] clean = cleanTextForAI(LongB) -> <<"gamma", "budget">>
    [] clean = cleanTextForAI(MarkupC) -> <<"gamma", "budget">>
    [] OTHER -> <<>>

generateMockTags(clean) ==
  SubSeq(ContentWords(clean) \o <<"note", "idea", "project">>, 1, 5)

getTags(text) ==
  LET clean == cleanTextForAI(text) IN
  IF Len(clean) < TAGS_MIN THEN <<>> ELSE generateMockTags(clean)

\* the mock embedding is a function of the hash of the clean text alone
getEmbedding(text) == <<"vec", cleanTextForAI(text)>>

----------------------------------------------------------------------------
(* State *)

VARIABLES
  remote,       \* the remote collection: document id -> note document
  nextRemote,   \* number of document ids the remote store has generated
  local,        \* localStorage 'notes' as the gateway sees it: a list of notes
  now,          \* the clock read by new Date() / Date.now()
  calls,        \* the gateway calls in flight, each with its position
  done,         \* the gateway call that completed last, with its outcome
  issued,       \* number of gateway calls issued
  \* ---- the Dashboard and its editor
  store,        \* localStorage 'notes' as the Dashboard and the editor see it
  notes,        \* Dashboard state: notes
  showEditor,   \* Dashboard state: showEditor (the editor is mounted)
  editingNote,  \* Dashboard state: editingNote (NoNote for a new note)
  title, content, tags, summary, embedding,   \* editor state
  aiProcessing, \* editor state: the processing flag
  aiTimer,      \* the pending timeout of the AI-processing effect
  saveTimer,    \* the pending timeout of the auto-save effect
  runs,         \* the processWithAI calls awaiting the engine
  regens,       \* the handleRegenerateSummary calls awaiting the engine
  nextUuid,     \* number of ids uuidv4 has generated
  draft,        \* localStorage 'new-note-draft'
  inputs,       \* number of user inputs so far: it bounds the behaviour
  trace,        \* what the session has done, for stating the claims
  \* ---- the Dashboard's search bar
  filteredNotes,\* Dashboard state: filteredNotes, the notes displayed
  query,        \* SearchBar state: query
  searchType,   \* SearchBar state: searchType, "text" or "semantic"
  isSearching,  \* SearchBar state: isSearching
  searchTimer,  \* the pending timeout of the search debounce effect
  searches,     \* the handleSearch calls awaiting semanticSearch
  delivered,    \* the last call of onResults, for stating the claims
  \* ---- the enrichment engine's functions called on their own
  engine        \* the function applied, its arguments and what its calls returned

gwVars == <<remote, nextRemote, local, calls, done, issued>>
edVars == <<store, notes, showEditor, editingNote, title, content, tags,
            summary, embedding, aiProcessing, aiTimer, saveTimer, runs, regens,
            nextUuid, draft, inputs, trace>>
seVars == <<filteredNotes, query, searchType, isSearching, searchTimer, searches,
            delivered>>
vars == <<now, gwVars, edVars, seVars, engine>>

----------------------------------------------------------------------------
(* Notes *)

Users == {"alice", "bob"}        \* the identities that call the gateway
Owners == {"alice"}              \* those that create notes

Version(t, c, ts) == [title |-> t, content |-> c, timestamp |-> ts]

NoId == <<"none", 0>>

\* null, where a note is expected
NoNote ==
  [id |-> NoId, title |-> UNDEF, content |-> UNDEF, tags |-> NoTags,
   summary |-> UNDEF, embedding |-> EmbUndef, ownerId |-> UNDEF,
   sharedWith |-> {}, createdAt |-> 0, updatedAt |-> 0, versions |-> <<>>]

\* an object of optional title, content and tags: noteData, updates
Fields(t, c, g) == [title |-> t, content |-> c, tags |-> g]

\* {...base, ...upd}: the keys present in upd override those of base
Spread(base, upd) ==
  [base EXCEPT !.title = IF upd.title # UNDEF THEN upd.title ELSE @,
               !.content = IF upd.content # UNDEF THEN upd.content ELSE @,
               !.tags = IF upd.tags # NoTags THEN upd.tags ELSE @]

\* arr.filter((tag, index, arr) => arr.indexOf(tag) === index)
DedupExact(arr) == SelectIdx(arr, LAMBDA i : IndexOf(arr, arr[i], 1) = i)

\* tags || fallback: an array is truthy even when empty
TagsOr(g, fallback) == IF g # NoTags THEN g ELSE fallback

----------------------------------------------------------------------------
(* The gateway: services/notes.js *)

RemoteId(n) == <<"r", n>>
LocalId(t) == <<"t", t>>          \* Date.now().toString()

\* a read that checks no access
getNoteUnchecked(noteId, userId, fail) ==
  IF fail \/ noteId \notin DOMAIN remote THEN NoNote
  ELSE remote[noteId]

\* getNote: the note, or null when the read fails, the document does not
\* exist or the user has no access
getNote(noteId, userId, fail) ==
  IF fail \/ noteId \notin DOMAIN remote THEN NoNote
  ELSE IF remote[noteId].ownerId # userId /\ userId \notin remote[noteId].sharedWith
       THEN NoNote
       ELSE remote[noteId]

\* the document createNote hands to addDoc, with the id addDoc generates
NewRemoteNote(noteData, userId, id, t) ==
  LET has == Truthy(noteData.content) IN
  [id |-> id,
   title |-> noteData.title,
   content |-> noteData.content,
   ownerId |-> userId,
   summary |-> IF has THEN getSummary(noteData.content) ELSE "",
   tags |-> DedupExact(TagsOr(noteData.tags, <<>>)
                       \o (IF has THEN getTags(noteData.content) ELSE <<>>)),
   embedding |-> IF has THEN getEmbedding(noteData.content) ELSE EmbNull,
   sharedWith |-> {},
   createdAt |-> t,
   updatedAt |-> t,
   versions |-> <<Version(noteData.title, noteData.content, t)>>]

\* a fallback create that records no version
createNoteInLocalStorageNoVersion(noteData, userId, t) ==
  [id |-> LocalId(t),
   title |-> noteData.title,
   content |-> noteData.content,
   tags |-> noteData.tags,
   summary |-> UNDEF,
   embedding |-> EmbUndef,
   ownerId |-> userId,
   sharedWith |-> {},
   createdAt |-> t,
   updatedAt |-> t,
   versions |-> <<>>]

createNoteInLocalStorage(noteData, userId, t) ==
  [id |-> LocalId(t),
   title |-> noteData.title,
   content |-> noteData.content,
   tags |-> noteData.tags,
   summary |-> UNDEF,
   embedding |-> EmbUndef,
   ownerId |-> userId,
   sharedWith |-> {},
   createdAt |-> t,
   updatedAt |-> t,
   versions |-> <<Version(noteData.title, noteData.content, t)>>]

\* notes.findIndex(note => note.id === noteId && note.ownerId === userId); 0 for -1
RECURSIVE FindOwned(_, _, _, _)
FindOwned(list, noteId, userId, from) ==
  IF from > Len(list) THEN 0
  ELSE IF list[from].id = noteId /\ list[from].ownerId = userId THEN from
  ELSE FindOwned(list, noteId, userId, from + 1)

\* the version updateNote and updateNoteInLocalStorage append
NewVersion(updates, currentNote, t) ==
  Version(OrElse(updates.title, currentNote.title),
          OrElse(updates.content, currentNote.content), t)

\* the entry updateNoteInLocalStorage writes at the note's index
LocalUpdated(currentNote, updates, t) ==
  [Spread(currentNote, updates) EXCEPT
     !.updatedAt = t,
     !.versions = Append(currentNote.versions, NewVersion(updates, currentNote, t))]

\* updateNote: aiUpdates, computed only when the content changed
ContentChanged(updates, currentNote) ==
  Truthy(updates.content) /\ updates.content # currentNote.content

\* updateNote: updatedNote = {...updates, ...aiUpdates, updatedAt, versions}
UpdatedNote(updates, currentNote, t) ==
  [upd |-> updates,
   ai |-> ContentChanged(updates, currentNote),
   summary |-> getSummary(updates.content),
   tags |-> DedupExact(TagsOr(updates.tags, TagsOr(currentNote.tags, <<>>))
                       \o getTags(updates.content)),
   embedding |-> getEmbedding(updates.content),
   versions |-> Append(currentNote.versions, NewVersion(updates, currentNote, t))]

\* {...doc, ...updatedNote} with updatedAt read at t: what updateDoc leaves in
\* the document, and what updateNote returns
Merge(doc, un, t) ==
  LET d == Spread(doc, un.upd) IN
  [d EXCEPT !.summary = IF un.ai THEN un.summary ELSE @,
            !.tags = IF un.ai THEN un.tags ELSE @,
            !.embedding = IF un.ai THEN un.embedding ELSE @,
            !.updatedAt = t,
            !.versions = un.versions]

NoUpdated == UpdatedNote(Fields(UNDEF, UNDEF, NoTags), NoNote, 0)

\* a fallback delete that matches on the id alone
deleteNoteFromLocalStorageAnyOwner(list, noteId, userId) ==
  SelectSeq(list, LAMBDA n : n.id # noteId)

deleteNoteFromLocalStorage(list, noteId, userId) ==
  SelectSeq(list, LAMBDA n : ~(n.id = noteId /\ n.ownerId = userId))

RemoveDoc(coll, id) == [i \in DOMAIN coll \ {id} |-> coll[i]]

----------------------------------------------------------------------------
(* Gateway calls.  An async operation is one action per stretch between     *)
(* two awaits on the remote store; each remote request may fail.            *)

NoteData == {Fields("T1", "", NoTags), Fields("T1", LongA, <<"Alpha">>)}
Updates == {Fields("T2", UNDEF, NoTags), Fields(UNDEF, "", NoTags), Fields(UNDEF, LongA, NoTags)}

KnownIds == DOMAIN remote \cup {local[i].id : i \in 1..Len(local)}

\* the requester may access a note of this id in one of the two stores
HeldBy(noteId, userId) ==
  \/ /\ noteId \in DOMAIN remote
     /\ remote[noteId].ownerId = userId \/ userId \in remote[noteId].sharedWith
  \/ \E i \in 1..Len(local) : local[i].id = noteId /\ local[i].ownerId = userId

\* the store in which the requester owns a note of this id
OwnedIn(noteId, userId) ==
  IF noteId \in DOMAIN remote /\ remote[noteId].ownerId = userId THEN "remote"
  ELSE IF \E i \in 1..Len(local) : local[i].id = noteId /\ local[i].ownerId = userId
       THEN "local"
       ELSE "none"

\* a call of the gateway: its arguments, its position (pc, the note it read,
\* the write it prepared) and its outcome: returned or threw, the note or the
\* boolean returned, the path taken, whether a remote request of it failed,
\* and whether the requester could access / owned the note when it ended;
\* n numbers the calls in the order they were issued
Call(op, userId, noteId, upd) ==
  [n |-> issued + 1, op |-> op, user |-> userId, id |-> noteId, upd |-> upd,
   emails |-> {}, pc |-> "done", cur |-> NoNote, pend |-> NoUpdated,
   status |-> "returned", result |-> NoNote, ok |-> FALSE,
   path |-> "remote", remoteFailed |-> FALSE, held |-> FALSE, owned |-> "none"]

NoCall ==
  [n |-> 0, op |-> "none", user |-> UNDEF, id |-> NoId,
   upd |-> Fields(UNDEF, UNDEF, NoTags), emails |-> {},
   pc |-> "done", cur |-> NoNote, pend |-> NoUpdated,
   status |-> "none", result |-> NoNote, ok |-> FALSE,
   path |-> "remote", remoteFailed |-> FALSE, held |-> FALSE, owned |-> "none"]

Running(i) == i \in 1..Len(calls)

RemoveAt(seq, i) == SubSeq(seq, 1, i - 1) \o SubSeq(seq, i + 1, Len(seq))

\* createNote
CreateNote(noteData, userId) ==
  /\ issued < MaxCalls
  /\ issued' = issued + 1
  /\ \E fail \in BOOLEAN :
       IF ~fail
       THEN LET doc == NewRemoteNote(noteData, userId, RemoteId(nextRemote + 1), now) IN
            /\ remote' = remote @@ (doc.id :> doc)
            /\ nextRemote' = nextRemote + 1
            /\ local' = local
            /\ done' = [Call("create", userId, doc.id, noteData)
                          EXCEPT !.result = doc, !.held = TRUE]
       ELSE LET newNote == createNoteInLocalStorage(noteData, userId, now) IN
            /\ local' = Append(local, newNote)
            /\ UNCHANGED <<remote, nextRemote>>
            /\ done' = [Call("create", userId, newNote.id, noteData)
                          EXCEPT !.result = newNote, !.held = TRUE,
                                 !.path = "local", !.remoteFailed = TRUE]
  /\ UNCHANGED <<now, calls>>
  /\ UNCHANGED <<edVars, seVars, engine>>

\* getNote, called by a client of the gateway
ReadNote(noteId, userId) ==
  /\ issued < MaxCalls
  /\ issued' = issued + 1
  /\ \E fail \in BOOLEAN :
       done' = [Call("read", userId, noteId, Fields(UNDEF, UNDEF, NoTags))
                  EXCEPT !.result = getNote(noteId, userId, fail),
                         !.remoteFailed = fail,
                         !.held = HeldBy(noteId, userId),
                         !.owned = OwnedIn(noteId, userId)]
  /\ UNCHANGED <<remote, nextRemote, local, now, calls>>
  /\ UNCHANGED <<edVars, seVars, engine>>

\* updateNoteInLocalStorage: the list it leaves in localStorage (unchanged when
\* it throws 'Note not found')
updateNoteInLocalStorage(list, noteId, updates, userId, t) ==
  LET idx == FindOwned(list, noteId, userId, 1) IN
  IF idx = 0 THEN list
  ELSE [list EXCEPT ![idx] = LocalUpdated(list[idx], updates, t)]

\* the catch branch of updateNote: the call once updateNoteInLocalStorage has
\* returned notes[noteIndex] or thrown
UpdateFallback(c, failed) ==
  LET idx == FindOwned(local, c.id, c.user, 1) IN
  IF idx = 0
  THEN [c EXCEPT !.pc = "done", !.status = "threw", !.path = "local",
                 !.pend = NoUpdated,
                 !.remoteFailed = failed, !.held = HeldBy(c.id, c.user)]
  ELSE [c EXCEPT !.pc = "done", !.status = "returned", !.path = "local",
                 !.cur = local[idx], !.pend = NoUpdated,
                 !.result = LocalUpdated(local[idx], c.upd, now),
                 !.remoteFailed = failed, !.held = TRUE]

\* updateNote up to its await of updateDoc: getNote, aiUpdates, newVersion
UpdateGet(noteId, updates, userId) ==
  /\ issued < MaxCalls
  /\ issued' = issued + 1
  /\ \E fail \in BOOLEAN :
       LET c == Call("update", userId, noteId, updates)
           currentNote == getNote(noteId, userId, fail) IN
       IF currentNote = NoNote
       THEN /\ local' = updateNoteInLocalStorage(local, noteId, updates, userId, now)
            /\ done' = UpdateFallback(c, fail)
            /\ calls' = calls
       ELSE /\ local' = local
            /\ done' = done
            /\ calls' = Append(calls, [c EXCEPT !.pc = "write", !.status = "running",
                                                !.cur = currentNote,
                                                !.pend = UpdatedNote(updates, currentNote, now)])
  /\ UNCHANGED <<remote, nextRemote, now>>
  /\ UNCHANGED <<edVars, seVars, engine>>

\* updateNote from the completion of updateDoc on
UpdateWrite(i) ==
  /\ Running(i) /\ calls[i].op = "update"
  /\ calls' = RemoveAt(calls, i)
  /\ \E fail \in BOOLEAN :
       LET c == calls[i] IN
       IF ~fail /\ c.id \in DOMAIN remote
       THEN /\ remote' = [remote EXCEPT ![c.id] = Merge(@, c.pend, now)]
            /\ local' = local
            /\ done' = [c EXCEPT !.pc = "done", !.status = "returned",
                                 !.pend = NoUpdated,
                                 !.result = Merge(c.cur, c.pend, now),
                                 !.held = TRUE]
       ELSE /\ remote' = remote
            /\ local' = updateNoteInLocalStorage(local, c.id, c.upd, c.user, now)
            /\ done' = UpdateFallback(c, TRUE)
  /\ UNCHANGED <<nextRemote, now, issued>>
  /\ UNCHANGED <<edVars, seVars, engine>>

\* the catch branch of deleteNote: deleteNoteFromLocalStorage returns whether
\* it removed an entry
DeleteFallback(c, failed) ==
  [c EXCEPT !.pc = "done", !.status = "returned", !.path = "local",
            !.remoteFailed = failed,
            !.held = HeldBy(c.id, c.user),
            !.ok = Len(deleteNoteFromLocalStorage(local, c.id, c.user)) # Len(local)]

\* deleteNote up to its await of deleteDoc
DeleteGet(noteId, userId) ==
  /\ issued < MaxCalls
  /\ issued' = issued + 1
  /\ \E fail \in BOOLEAN :
       LET c == Call("delete", userId, noteId, Fields(UNDEF, UNDEF, NoTags))
           note == getNote(noteId, userId, fail) IN
       IF note = NoNote
       THEN /\ local' = deleteNoteFromLocalStorage(local, noteId, userId)
            /\ done' = DeleteFallback(c, fail)
            /\ calls' = calls
       ELSE /\ local' = local
            /\ done' = done
            /\ calls' = Append(calls, [c EXCEPT !.pc = "write", !.status = "running",
                                                !.cur = note])
  /\ UNCHANGED <<remote, nextRemote, now>>
  /\ UNCHANGED <<edVars, seVars, engine>>

\* deleteNote from the completion of deleteDoc on
DeleteWrite(i) ==
  /\ Running(i) /\ calls[i].op = "delete"
  /\ calls' = RemoveAt(calls, i)
  /\ \E fail \in BOOLEAN :
       LET c == calls[i] IN
       IF ~fail
       THEN /\ remote' = RemoveDoc(remote, c.id)
            /\ local' = local
            /\ done' = [c EXCEPT !.pc = "done", !.status = "returned",
                                 !.ok = TRUE, !.held = TRUE]
       ELSE /\ remote' = remote
            /\ local' = deleteNoteFromLocalStorage(local, c.id, c.user)
            /\ done' = DeleteFallback(c, TRUE)
  /\ UNCHANGED <<nextRemote, now, issued>>
  /\ UNCHANGED <<edVars, seVars, engine>>

\* a check that every reader of the note passes
MayShareAnyReader(note, userId) == note # NoNote

\* shareNote: only the owner passes the check after getNote
MayShare(note, userId) == note # NoNote /\ note.ownerId = userId

\* the recipients a caller may name
ShareSets == {{"bob"}}

\* shareNote up to its await of updateDoc
ShareGet(noteId, userEmails, userId) ==
  /\ issued < MaxCalls
  /\ issued' = issued + 1
  /\ \E fail \in BOOLEAN :
       LET c == [Call("share", userId, noteId, Fields(UNDEF, UNDEF, NoTags))
                   EXCEPT !.emails = userEmails]
           note == getNote(noteId, userId, fail) IN
       IF ~MayShare(note, userId)
       THEN /\ done' = [c EXCEPT !.ok = FALSE, !.remoteFailed = fail,
                                 !.held = HeldBy(noteId, userId),
                                 !.owned = OwnedIn(noteId, userId)]
            /\ calls' = calls
       ELSE /\ done' = done
            /\ calls' = Append(calls, [c EXCEPT !.pc = "write", !.status = "running",
                                                !.cur = note])
  /\ UNCHANGED <<remote, nextRemote, local, now>>
  /\ UNCHANGED <<edVars, seVars, engine>>

\* shareNote from the completion of updateDoc on; updateDoc fails on a
\* document that no longer exists
ShareWrite(i) ==
  /\ Running(i) /\ calls[i].op = "share"
  /\ calls' = RemoveAt(calls, i)
  /\ \E fail \in BOOLEAN :
       LET c == calls[i] IN
       IF ~fail /\ c.id \in DOMAIN remote
       THEN /\ remote' = [remote EXCEPT ![c.id].sharedWith = c.emails,
                                        ![c.id].updatedAt = now]
            /\ done' = [c EXCEPT !.pc = "done", !.status = "returned", !.ok = TRUE,
                                 !.held = TRUE, !.owned = OwnedIn(c.id, c.user)]
       ELSE /\ remote' = remote
            /\ done' = [c EXCEPT !.pc = "done", !.status = "returned", !.ok = FALSE,
                                 !.remoteFailed = TRUE,
                                 !.held = HeldBy(c.id, c.user),
                                 !.owned = OwnedIn(c.id, c.user)]
  /\ UNCHANGED <<nextRemote, local, now, issued>>
  /\ UNCHANGED <<edVars, seVars, engine>>

\* the clock advances
GwTick ==
  /\ now < MaxTime
  /\ now' = now + 1
  /\ UNCHANGED <<remote, nextRemote, local, calls, done, issued>>
  /\ UNCHANGED <<edVars, seVars, engine>>

----------------------------------------------------------------------------
(* The Dashboard and its editor: pages/Dashboard.jsx, components/NoteEditor.jsx *)

AI_DELAY == 1500          \* ms of inactivity before processWithAI
AUTOSAVE_DELAY == 3000    \* ms of inactivity before handleAutoSave
MIN_AI_CONTENT == 50      \* content.length below which nothing is processed

Tick == AI_DELAY \div 2   \* the step by which the model lets time pass

Uid == "alice"            \* user?.uid of the session

\* the demo data loadDemoData puts in an empty localStorage
Demo1 ==
  [id |-> <<"demo", 1>>, title |-> "Welcome", content |-> LongA,
   tags |-> <<"welcome">>, summary |-> "Welcome note.", embedding |-> EmbUndef,
   ownerId |-> "demo-user", sharedWith |-> {}, createdAt |-> 0 - 1,
   updatedAt |-> 0 - 1, versions |-> <<>>]

demoNotes == <<Demo1>>

\* list.sort((a, b) => new Date(b.createdAt) - new Date(a.createdAt)): stable
RECURSIVE InsertByCreated(_, _, _)
InsertByCreated(sorted, n, i) ==
  IF i > Len(sorted) THEN Append(sorted, n)
  ELSE IF sorted[i].createdAt < n.createdAt
       THEN SubSeq(sorted, 1, i - 1) \o <<n>> \o SubSeq(sorted, i, Len(sorted))
       ELSE InsertByCreated(sorted, n, i + 1)

SortNewestFirst(list) ==
  LET F[k \in 0..Len(list)] ==
        IF k = 0 THEN <<>> ELSE InsertByCreated(F[k - 1], list[k], 1)
  IN F[Len(list)]

\* a pending timeout, and none
NoTimer == [armed |-> FALSE]

\* the closure a timeout's callback runs in: the state of the render that set it
Closure(t, c, g, s, e) ==
  [title |-> t, content |-> c, tags |-> g, summary |-> s, embedding |-> e]

\* the effect without its cleanup: a timeout already pending stays
AIEffectKeepsPending(prev, c, g) ==
  IF prev # NoTimer THEN prev
  ELSE IF c = "" \/ Len(c) < MIN_AI_CONTENT THEN NoTimer
  ELSE [armed |-> TRUE, left |-> AI_DELAY, content |-> c, tags |-> g]

\* the AI-processing effect, run when content changed: the cleanup of the
\* previous run has cleared its timeout, a new one is set for substantial content
AIEffect(prev, c, g) ==
  IF c = "" \/ Len(c) < MIN_AI_CONTENT THEN NoTimer
  ELSE [armed |-> TRUE, left |-> AI_DELAY, content |-> c, tags |-> g]

\* the auto-save effect without its cleanup: a timeout already pending stays,
\* with the title, content and tags of the render that set it
AutoSaveEffectKeepsPending(prev, cl, processing) ==
  IF cl.title = "" /\ cl.content = "" THEN NoTimer
  ELSE IF processing THEN NoTimer
  ELSE IF prev # NoTimer THEN prev
  ELSE [armed |-> TRUE, left |-> AUTOSAVE_DELAY, cl |-> cl]

\* the auto-save effect, run when title, content, tags or aiProcessing changed
AutoSaveEffect(prev, cl, processing) ==
  IF cl.title = "" /\ cl.content = "" THEN NoTimer
  ELSE IF processing THEN NoTimer
  ELSE [armed |-> TRUE, left |-> AUTOSAVE_DELAY, cl |-> cl]

\* an unmount that leaves the timeout pending
CleanupMissing(timer) == timer

\* the cleanup of an effect when the editor unmounts: clearTimeout
Cleanup(timer) == NoTimer

\* [...tags, ...aiTags] without the entries that repeat an earlier one, case ignored
Lower(tag) ==
  CASE tag = "Alpha" -> "alpha"
    [] tag = "Welcome" -> "welcome"
    [] OTHER -> tag

RECURSIVE FindLower(_, _, _)
FindLower(arr, tag, from) ==      \* arr.findIndex(t => t.toLowerCase() === tag.toLowerCase())
  IF from > Len(arr) THEN 0
  ELSE IF Lower(arr[from]) = Lower(tag) THEN from
  ELSE FindLower(arr, tag, from + 1)

MergeTags(g, aiTags) ==
  LET all == g \o aiTags IN
  SelectIdx(all, LAMBDA i : FindLower(all, all[i], 1) = i)

Min(a, b) == IF a <= b THEN a ELSE b
Max(a, b) == IF a >= b THEN a ELSE b

\* the readings the clock may give after it gave t
Later(t) == {t, Min(MaxTime, t + 1)}

\* noteData of handleAutoSave and handleSave: updatedAt is read from the clock
\* first (tU); createdAt is the existing note's, or a second reading (tC)
EditorNoteData(cl, existingNote, uuid, tU, tC) ==
  [id |-> IF existingNote # NoNote THEN existingNote.id ELSE uuid,
   title |-> IF cl.title # "" THEN cl.title ELSE "Untitled",
   content |-> cl.content,
   tags |-> cl.tags,
   summary |-> cl.summary,
   embedding |-> cl.embedding,
   ownerId |-> Uid,
   sharedWith |-> {},
   updatedAt |-> tU,
   createdAt |-> IF existingNote # NoNote THEN existingNote.createdAt ELSE tC,
   versions |-> IF existingNote # NoNote THEN existingNote.versions ELSE <<>>]

RECURSIVE FindId(_, _, _)
FindId(list, id, from) ==         \* list.findIndex(note => note.id === id); 0 for -1
  IF from > Len(list) THEN 0
  ELSE IF list[from].id = id THEN from
  ELSE FindId(list, id, from + 1)

\* handleAutoSave: the 'notes' list it leaves in localStorage
AutoSaveWrite(savedNotes, noteData) ==
  LET existingIndex == FindId(savedNotes, noteData.id, 1) IN
  IF existingIndex >= 1 THEN [savedNotes EXCEPT ![existingIndex] = noteData]
  ELSE Append(savedNotes, noteData)

\* handleSaveNote: the Dashboard's notes after onSave(noteData)
handleSaveNote(list, editing, noteData) ==
  SortNewestFirst(
    IF editing # NoNote
    THEN [i \in 1..Len(list) |-> IF list[i].id = editing.id THEN noteData ELSE list[i]]
    ELSE Append(list, noteData))

----------------------------------------------------------------------------
(* The editor session.  A handler, the re-render it causes and the effects    *)
(* that re-run are one action; processWithAI is two, around its await.        *)

\* what the session did, kept for stating the claims:
\*   sinceEdit  ms since the content last changed (or the editor mounted), up to AI_DELAY
\*   burstEdits content changes, up to 2, since the last one that came after a
\*              quiet AI_DELAY: the current burst
\*   burstRuns  runs started in the current burst
\*   started    the content of the run started last, UNDEF before the first
\*   write      the last write of a note by the session: by the "autosave"
\*              timer or by "save", the processing flag at that moment, whether
\*              a run was awaiting the engine, the title, content and tags
\*              written, the number of user inputs before it, whether a save
\*              timer was pending, the versions of the note before the write
\*              and the versions written
\*   reloaded   the page was reloaded and the editor has not been opened since
NoWrite ==
  [by |-> "none", processing |-> FALSE, running |-> FALSE, title |-> "", content |-> "",
   tags |-> <<>>, at |-> 0, pending |-> FALSE, prior |-> <<>>, versions |-> <<>>]

\* no function of the engine is being called on its own
NoEngine == [op |-> "idle"]

\* no call of onResults yet
NoDelivery == [mode |-> "none", query |-> "", corpus |-> <<>>, results |-> <<>>]

NoTrace ==
  [sinceEdit |-> 0, burstEdits |-> 0, burstRuns |-> 0, started |-> UNDEF, write |-> NoWrite,
   reloaded |-> FALSE]

HasExisting == editingNote # NoNote

\* localStorage 'new-note-draft': absent, or the draft the draft effect wrote
\* (its timestamp is never read).  The drafts the effect writes under the id
\* of an existing note are never read and are left out.
NoDraft == [title |-> UNDEF, content |-> UNDEF, tags |-> NoTags]

DraftOf(t, c, g) == [title |-> t, content |-> c, tags |-> g]

\* the draft-load effect of a new note: the state after it, from the stored
\* draft and the state before it
LoadDraft(stored, state) ==
  IF stored = NoDraft THEN state
  ELSE DraftOf(OrElse(stored.title, ""), OrElse(stored.content, ""),
               TagsOr(stored.tags, <<>>))

\* the draft after the draft effect re-ran with the given title, content and tags
DraftEffect(t, c, g) == IF HasExisting THEN draft ELSE DraftOf(t, c, g)

NextUuid == <<"u", nextUuid + 1>>

\* a handleClearSearch that displays no note
handleClearSearchEmpty(list) == <<>>

\* Dashboard: handleClearSearch, the list it displays
handleClearSearch(list) == list

\* the Dashboard renders the editor in place of its page: the SearchBar
\* unmounts, the cleanup of its effect clears the timeout.  Results that
\* arrive while the editor is shown are replaced when it closes and are left out.
SearchBarUnmount ==
  /\ query' = "" /\ searchType' = "text" /\ isSearching' = FALSE
  /\ searchTimer' = NoTimer
  /\ searches' = <<>>

\* the Dashboard renders its page over the given notes: the SearchBar mounts
\* with an empty query and its effect calls onClear
SearchBarMount(list) ==
  /\ query' = "" /\ searchType' = "text" /\ isSearching' = FALSE
  /\ searchTimer' = NoTimer
  /\ searches' = <<>>
  /\ filteredNotes' = handleClearSearch(list)

\* the editor mounts: useState initialisers, then every effect runs once
Mount(existingNote) ==
  LET t == IF existingNote # NoNote THEN existingNote.title ELSE ""
      c == IF existingNote # NoNote THEN existingNote.content ELSE ""
      g == IF existingNote # NoNote THEN TagsOr(existingNote.tags, <<>>) ELSE <<>>
      s == IF existingNote # NoNote THEN OrElse(existingNote.summary, "") ELSE ""
      e == IF existingNote # NoNote /\ existingNote.embedding # EmbUndef
           THEN existingNote.embedding ELSE EmbNull
      \* the effects in the order of their declaration: the draft is saved
      \* from the initial state, then, for a new note, loaded; the state the
      \* load sets is saved as the draft by the next render's effect
      written == IF existingNote # NoNote THEN draft ELSE DraftOf(t, c, g)
      loaded == IF existingNote # NoNote THEN DraftOf(t, c, g)
                ELSE LoadDraft(written, DraftOf(t, c, g))
  IN /\ showEditor' = TRUE
     /\ editingNote' = existingNote
     /\ title' = loaded.title /\ content' = loaded.content /\ tags' = loaded.tags
     /\ summary' = s /\ embedding' = e
     /\ draft' = IF existingNote # NoNote THEN draft
                 ELSE DraftOf(loaded.title, loaded.content, loaded.tags)
     /\ aiProcessing' = FALSE
     /\ runs' = <<>>
     /\ regens' = <<>>
     /\ aiTimer' = AIEffect(NoTimer, loaded.content, loaded.tags)
     /\ saveTimer' = AutoSaveEffect(NoTimer,
                        Closure(loaded.title, loaded.content, loaded.tags, s, e), FALSE)
     /\ trace' = NoTrace
     /\ inputs' = inputs + 1
     /\ SearchBarUnmount

\* the editor unmounts: the effects' cleanups run, pending results are dropped
Unmount ==
  /\ showEditor' = FALSE
  /\ title' = "" /\ content' = "" /\ tags' = <<>> /\ summary' = "" /\ embedding' = EmbNull
  /\ aiProcessing' = FALSE
  /\ runs' = <<>>
  /\ regens' = <<>>
  /\ aiTimer' = Cleanup(aiTimer)
  /\ saveTimer' = Cleanup(saveTimer)

\* Dashboard: handleCreateNote
OpenNew ==
  /\ ~showEditor /\ inputs < MaxInputs
  /\ Mount(NoNote)
  /\ UNCHANGED <<store, notes, nextUuid, filteredNotes, delivered, now, gwVars, engine>>

\* Dashboard: handleEditNote / handleViewNote on a listed note
OpenExisting(i) ==
  /\ ~showEditor /\ inputs < MaxInputs
  /\ i \in 1..Len(notes)
  /\ Mount(notes[i])
  /\ UNCHANGED <<store, notes, nextUuid, filteredNotes, delivered, now, gwVars, engine>>

\* onCancel
Cancel ==
  /\ showEditor
  /\ Unmount
  /\ SearchBarMount(notes)
  /\ trace' = NoTrace
  /\ UNCHANGED <<store, notes, editingNote, nextUuid, draft, inputs, delivered, now,
                 gwVars, engine>>

\* the page is reloaded: every component state, timeout and pending engine
\* call is gone, localStorage stays; the Dashboard mounts and loads the stored
\* notes, newest first (the demo data is loaded into an empty store only)
Reload ==
  /\ inputs < MaxInputs
  /\ inputs' = inputs + 1
  /\ notes' = SortNewestFirst(store)
  /\ editingNote' = NoNote
  /\ showEditor' = FALSE
  /\ title' = "" /\ content' = "" /\ tags' = <<>> /\ summary' = "" /\ embedding' = EmbNull
  /\ aiProcessing' = FALSE
  /\ runs' = <<>>
  /\ regens' = <<>>
  /\ aiTimer' = NoTimer
  /\ saveTimer' = NoTimer
  /\ trace' = [NoTrace EXCEPT !.reloaded = TRUE]
  /\ SearchBarMount(notes')
  /\ UNCHANGED <<store, nextUuid, draft, delivered, now, gwVars, engine>>

\* ReactQuill onChange: setContent
EditContent(c) ==
  /\ showEditor /\ inputs < MaxInputs
  /\ c # content
  /\ content' = c
  /\ draft' = DraftEffect(title, c, tags)
  /\ inputs' = inputs + 1
  /\ aiTimer' = AIEffect(aiTimer, c, tags)
  /\ saveTimer' = AutoSaveEffect(saveTimer, Closure(title, c, tags, summary, embedding),
                                 aiProcessing)
  /\ trace' = [trace EXCEPT
                 !.sinceEdit = 0,
                 !.burstEdits = IF trace.sinceEdit < AI_DELAY THEN Min(2, @ + 1) ELSE 1,
                 !.burstRuns = IF trace.sinceEdit < AI_DELAY THEN @ ELSE 0]
  /\ UNCHANGED <<store, notes, showEditor, editingNote, title, tags, summary, embedding,
                 aiProcessing, runs, nextUuid, now, regens, gwVars, engine, seVars>>

\* the title input's onChange: setTitle
EditTitle(t) ==
  /\ showEditor /\ inputs < MaxInputs
  /\ t # title
  /\ title' = t
  /\ draft' = DraftEffect(t, content, tags)
  /\ inputs' = inputs + 1
  /\ saveTimer' = AutoSaveEffect(saveTimer, Closure(t, content, tags, summary, embedding),
                                 aiProcessing)
  /\ UNCHANGED <<store, notes, showEditor, editingNote, content, tags, summary, embedding,
                 aiProcessing, aiTimer, runs, nextUuid, trace, now, regens, gwVars, engine, seVars>>

\* handleAddTag with a tag the list does not include
AddTag(newTag) ==
  /\ showEditor /\ inputs < MaxInputs
  /\ IndexOf(tags, newTag, 1) = 0
  /\ tags' = Append(tags, newTag)
  /\ draft' = DraftEffect(title, content, tags')
  /\ inputs' = inputs + 1
  /\ saveTimer' = AutoSaveEffect(saveTimer,
                                 Closure(title, content, tags', summary, embedding),
                                 aiProcessing)
  /\ UNCHANGED <<store, notes, showEditor, editingNote, title, content, summary, embedding,
                 aiProcessing, aiTimer, runs, nextUuid, trace, now, regens, gwVars, engine, seVars>>

\* a processWithAI whose finally block is missing: a failed run leaves the flag set
ProcessingAfterRunNoFinally(failed) == failed

\* the processing flag when processWithAI ends, its engine calls failed or not:
\* finally { setAiProcessing(false) }
ProcessingAfterRun(failed) == FALSE

\* the AI timeout fires: processWithAI up to its await of the engine
AiTimerFire ==
  /\ aiTimer # NoTimer /\ aiTimer.left = 0
  /\ aiTimer' = NoTimer
  /\ IF aiTimer.content = "" \/ Len(aiTimer.content) < MIN_AI_CONTENT
     THEN UNCHANGED <<aiProcessing, runs, saveTimer, trace>>
     ELSE /\ aiProcessing' = TRUE
          /\ runs' = Append(runs, [content |-> aiTimer.content, tags |-> aiTimer.tags])
          /\ saveTimer' = IF aiProcessing THEN saveTimer
                          ELSE AutoSaveEffect(saveTimer,
                                 Closure(title, content, tags, summary, embedding), TRUE)
          /\ trace' = [trace EXCEPT !.burstRuns = @ + 1, !.started = aiTimer.content]
  /\ UNCHANGED <<store, notes, showEditor, editingNote, title, content, tags, summary,
                 embedding, nextUuid, draft, inputs, now, regens, gwVars, engine, seVars>>

\* the engine answers a run: processWithAI from its await on
AiSettle(i) ==
  /\ showEditor
  /\ i \in 1..Len(runs)
  /\ LET r == runs[i] IN
     /\ summary' = getSummary(r.content)
     /\ embedding' = getEmbedding(r.content)
     /\ tags' = MergeTags(r.tags, getTags(r.content))
     /\ draft' = DraftEffect(title, content, tags')
     /\ aiProcessing' = ProcessingAfterRun(FALSE)
     /\ runs' = RemoveAt(runs, i)
     /\ saveTimer' = AutoSaveEffect(saveTimer,
                                    Closure(title, content, tags', summary', embedding'),
                                    aiProcessing')
  /\ UNCHANGED <<store, notes, showEditor, editingNote, title, content, aiTimer,
                 nextUuid, inputs, trace, now, regens, gwVars, engine, seVars>>

\* the engine rejects a run: processWithAI's catch logs the error, its finally
\* clears the flag; the auto-save effect re-runs when the flag changed
AiFail(i) ==
  /\ showEditor
  /\ i \in 1..Len(runs)
  /\ aiProcessing' = ProcessingAfterRun(TRUE)
  /\ runs' = RemoveAt(runs, i)
  /\ saveTimer' = IF aiProcessing' = aiProcessing THEN saveTimer
                  ELSE AutoSaveEffect(saveTimer,
                                      Closure(title, content, tags, summary, embedding),
                                      aiProcessing')
  /\ UNCHANGED <<store, notes, showEditor, editingNote, title, content, tags, summary,
                 embedding, aiTimer, nextUuid, draft, inputs, trace, now, regens, gwVars, engine, seVars>>

\* The Regenerate button and its handler, as REGENERATE_BUTTON_TEST.md gives
\* them; the NoteEditor.jsx of the repository renders no such button.
\* The button is disabled while aiProcessing or without content; the handler
\* sets the flag and awaits getSummary(content).
Regenerate ==
  /\ showEditor /\ inputs < MaxInputs
  /\ ~aiProcessing /\ content # ""
  /\ inputs' = inputs + 1
  /\ aiProcessing' = TRUE
  /\ regens' = Append(regens, [content |-> content])
  /\ saveTimer' = AutoSaveEffect(saveTimer,
                                 Closure(title, content, tags, summary, embedding), TRUE)
  /\ UNCHANGED <<store, notes, showEditor, editingNote, title, content, tags, summary,
                 embedding, aiTimer, runs, nextUuid, draft, trace, now, gwVars, engine, seVars>>

\* getSummary answers a regenerate call: setSummary, then finally clears the flag
RegenSettle(i) ==
  /\ showEditor
  /\ i \in 1..Len(regens)
  /\ summary' = getSummary(regens[i].content)
  /\ aiProcessing' = FALSE
  /\ regens' = RemoveAt(regens, i)
  /\ saveTimer' = IF aiProcessing' = aiProcessing THEN saveTimer
                  ELSE AutoSaveEffect(saveTimer,
                                      Closure(title, content, tags, summary', embedding),
                                      FALSE)
  /\ UNCHANGED <<store, notes, showEditor, editingNote, title, content, tags, embedding,
                 aiTimer, runs, nextUuid, draft, inputs, trace, now, gwVars, engine, seVars>>

\* getSummary rejects a regenerate call: the catch logs, finally clears the flag
RegenFail(i) ==
  /\ showEditor
  /\ i \in 1..Len(regens)
  /\ aiProcessing' = FALSE
  /\ regens' = RemoveAt(regens, i)
  /\ saveTimer' = IF aiProcessing' = aiProcessing THEN saveTimer
                  ELSE AutoSaveEffect(saveTimer,
                                      Closure(title, content, tags, summary, embedding),
                                      FALSE)
  /\ UNCHANGED <<store, notes, showEditor, editingNote, title, content, tags, summary,
                 embedding, aiTimer, runs, nextUuid, draft, inputs, trace, now, gwVars, engine, seVars>>

\* the auto-save timeout fires: handleAutoSave
SaveTimerFire ==
  /\ saveTimer # NoTimer /\ saveTimer.left = 0
  /\ saveTimer' = NoTimer
  /\ \E tC \in Later(now) :
     LET cl == saveTimer.cl
         noteData == EditorNoteData(cl, editingNote, NextUuid, now, tC) IN
     IF cl.title = "" /\ cl.content = ""
     THEN UNCHANGED <<store, nextUuid, trace, now>>
     ELSE /\ store' = AutoSaveWrite(store, noteData)
          /\ now' = IF HasExisting THEN now ELSE tC
          /\ nextUuid' = IF HasExisting THEN nextUuid ELSE nextUuid + 1
          /\ trace' = [trace EXCEPT !.write =
                         [by |-> "autosave", processing |-> aiProcessing,
                          running |-> runs # <<>>,
                          title |-> noteData.title, content |-> noteData.content,
                          tags |-> noteData.tags, at |-> inputs,
                          pending |-> TRUE,
                          prior |-> IF HasExisting THEN editingNote.versions ELSE <<>>,
                          versions |-> noteData.versions]]
  /\ UNCHANGED <<notes, showEditor, editingNote, title, content, tags, summary, embedding,
                 aiProcessing, aiTimer, runs, draft, inputs, regens, gwVars, engine, seVars>>

\* the Save button: handleSave, with the Dashboard's handleSaveNote as onSave.
\* handleAutoSave writes the note to localStorage under an id of its own,
\* then handleSaveNote replaces the stored list by the Dashboard's and closes
\* the editor.
Save ==
  /\ showEditor
  /\ \E tC \in Later(now) :
     LET cl == Closure(title, content, tags, summary, embedding)
         noteData == EditorNoteData(cl, editingNote, NextUuid, now, tC)
         wrote == ~(title = "" /\ content = "")
         sortedNotes == handleSaveNote(notes, editingNote, noteData) IN
     /\ nextUuid' = IF HasExisting THEN nextUuid
                    ELSE nextUuid + (IF wrote THEN 2 ELSE 1)
     /\ notes' = sortedNotes
     /\ store' = sortedNotes
     /\ trace' = [trace EXCEPT !.write =
                    [by |-> "save", processing |-> aiProcessing, running |-> runs # <<>>,
                     title |-> noteData.title, content |-> noteData.content,
                     tags |-> noteData.tags, at |-> inputs,
                     pending |-> saveTimer # NoTimer,
                     prior |-> IF HasExisting THEN editingNote.versions ELSE <<>>,
                     versions |-> noteData.versions]]
     /\ now' = IF HasExisting THEN now ELSE tC
  /\ draft' = IF HasExisting THEN draft ELSE NoDraft
  /\ editingNote' = NoNote
  /\ Unmount
  /\ SearchBarMount(notes')
  /\ UNCHANGED <<inputs, delivered, gwVars, engine>>

\* a pending timeout after Tick ms more
Elapse(timer) ==
  IF timer = NoTimer THEN timer ELSE [timer EXCEPT !.left = Max(0, @ - Tick)]

Due(timer) == timer # NoTimer /\ timer.left = 0

\* time passes; a timeout that is due fires before more time passes
EdTick ==
  /\ ~Due(aiTimer) /\ ~Due(saveTimer) /\ ~Due(searchTimer)
  /\ aiTimer' = Elapse(aiTimer)
  /\ saveTimer' = Elapse(saveTimer)
  /\ trace' = [trace EXCEPT !.sinceEdit = IF showEditor THEN Min(AI_DELAY, @ + Tick) ELSE @]
  /\ now' = Min(MaxTime, now + 1)
  /\ UNCHANGED <<store, notes, showEditor, editingNote, title, content, tags, summary,
                 embedding, aiProcessing, runs, nextUuid, draft, inputs, regens, gwVars, engine>>
  /\ searchTimer' = Elapse(searchTimer)
  /\ UNCHANGED <<filteredNotes, query, searchType, isSearching, searches, delivered>>

EditContents == {ShortC, LongA, LongB}
EditTitles == {"T"}
EditTags == {"Alpha"}

\* the Dashboard after its mount over the given stored notes
EdInitWith(stored) ==
  /\ store = stored
  /\ notes = SortNewestFirst(stored)
  /\ filteredNotes = notes
  /\ query = "" /\ searchType = "text" /\ isSearching = FALSE
  /\ searchTimer = NoTimer
  /\ searches = <<>>
  /\ delivered = NoDelivery
  /\ showEditor = FALSE
  /\ editingNote = NoNote
  /\ title = "" /\ content = "" /\ tags = <<>>
  /\ summary = "" /\ embedding = EmbNull
  /\ aiProcessing = FALSE
  /\ aiTimer = NoTimer
  /\ saveTimer = NoTimer
  /\ runs = <<>>
  /\ regens = <<>>
  /\ nextUuid = 0
  /\ draft = NoDraft
  /\ inputs = 0
  /\ trace = NoTrace

EdInit == EdInitWith(demoNotes)

EdNext ==
  \/ OpenNew
  \/ \E i \in 1..MaxInputs : OpenExisting(i)
  \/ Cancel
  \/ Reload
  \/ \E c \in EditContents : EditContent(c)
  \/ \E t \in EditTitles : EditTitle(t)
  \/ \E g \in EditTags : AddTag(g)
  \/ AiTimerFire
  \/ \E i \in 1..MaxInputs : AiSettle(i)
  \/ \E i \in 1..MaxInputs : AiFail(i)
  \/ SaveTimerFire
  \/ Save
  \/ EdTick

----------------------------------------------------------------------------
(* The gateway's specification *)

GwInit ==
  /\ remote = <<>>
  /\ nextRemote = 0
  /\ local = <<>>
  /\ now = 0
  /\ calls = <<>>
  /\ done = NoCall
  /\ issued = 0

Init == GwInit /\ EdInit /\ engine = NoEngine

GwNext ==
  \/ \E noteData \in NoteData, userId \in Owners : CreateNote(noteData, userId)
  \/ \E noteId \in KnownIds, userId \in Users : ReadNote(noteId, userId)
  \/ \E noteId \in KnownIds, updates \in Updates, userId \in Users :
       UpdateGet(noteId, updates, userId)
  \/ \E i \in 1..Len(calls) : UpdateWrite(i)
  \/ \E noteId \in KnownIds, userId \in Users : DeleteGet(noteId, userId)
  \/ \E i \in 1..Len(calls) : DeleteWrite(i)
  \/ \E noteId \in KnownIds, userEmails \in ShareSets, userId \in Users :
       ShareGet(noteId, userEmails, userId)
  \/ \E i \in 1..Len(calls) : ShareWrite(i)
  \/ GwTick

SpecGateway == Init /\ [][GwNext]_vars

SpecEditor == Init /\ [][EdNext]_vars

\* the editor with, in addition, a content that is mostly markup
EdNextMarkup ==
  \/ EdNext
  \/ EditContent(MarkupC)

SpecEditorMarkup == Init /\ [][EdNextMarkup]_vars

\* the editor with the Regenerate button of REGENERATE_BUTTON_TEST.md
EdNextRegenerate ==
  \/ EdNext
  \/ Regenerate
  \/ \E i \in 1..MaxInputs : RegenSettle(i)
  \/ \E i \in 1..MaxInputs : RegenFail(i)

SpecEditorRegenerate == Init /\ [][EdNextRegenerate]_vars

----------------------------------------------------------------------------
(* The Dashboard's search: components/SearchBar.jsx, semanticSearch and     *)
(* cosineSimilarity of services/ai.js                                       *)

SEARCH_DELAY == 300       \* ms of the search debounce
SEARCH_LIMIT == 10        \* semanticSearch: limit = 10
TITLE_SCORE == 10
SUMMARY_SCORE == 5
CONTENT_SCORE == 2
TAG_SCORE == 7

UpperCase == "ABCDEFGHIJKLMNOPQRSTUVWXYZ"
LowerCase == "abcdefghijklmnopqrstuvwxyz"

\* the lower-case letter of each upper-case letter
LowerOf ==
  [c \in {Char(UpperCase, i) : i \in 1..Len(UpperCase)} |->
     Char(LowerCase, CHOOSE i \in 1..Len(UpperCase) : Char(UpperCase, i) = c)]

LowerChar(c) == IF c \in DOMAIN LowerOf THEN LowerOf[c] ELSE c

\* String.prototype.toLowerCase
toLowerCase(str) ==
  LET F[i \in 0..Len(str)] == IF i = 0 THEN "" ELSE F[i - 1] \o LowerChar(Char(str, i))
  IN F[Len(str)]

\* String.prototype.includes
includes(str, searchString) ==
  \/ searchString = ""
  \/ \E i \in 1..(Len(str) - Len(searchString) + 1) :
       SubSeq(str, i, i + Len(searchString) - 1) = searchString

\* !query.trim(): the query is empty or whitespace only
IsBlank(q) == \A i \in 1..Len(q) : Char(q, i) = " "

\* field?.toLowerCase().includes(searchText)
FieldIncludes(field, searchText) ==
  field # UNDEF /\ includes(toLowerCase(field), searchText)

\* tags?.some(tag => tag.toLowerCase().includes(searchText))
TagsInclude(g, searchText) ==
  g # NoTags /\ \E i \in 1..Len(g) : includes(toLowerCase(g[i]), searchText)

\* the predicate of the text filter of handleSearch
MatchesText(note, q) ==
  LET searchText == toLowerCase(q) IN
  \/ FieldIncludes(note.title, searchText)
  \/ FieldIncludes(note.content, searchText)
  \/ FieldIncludes(note.summary, searchText)
  \/ TagsInclude(note.tags, searchText)

\* a scoring that gives the tag match the summary's weight and the reverse
calculateRelevanceScoreSwapped(note, q) ==
  LET searchText == toLowerCase(q) IN
    (IF FieldIncludes(note.title, searchText) THEN TITLE_SCORE ELSE 0)
  + (IF FieldIncludes(note.summary, searchText) THEN TAG_SCORE ELSE 0)
  + (IF FieldIncludes(note.content, searchText) THEN CONTENT_SCORE ELSE 0)
  + (IF TagsInclude(note.tags, searchText) THEN SUMMARY_SCORE ELSE 0)

calculateRelevanceScore(note, q) ==
  LET searchText == toLowerCase(q) IN
    (IF FieldIncludes(note.title, searchText) THEN TITLE_SCORE ELSE 0)
  + (IF FieldIncludes(note.summary, searchText) THEN SUMMARY_SCORE ELSE 0)
  + (IF FieldIncludes(note.content, searchText) THEN CONTENT_SCORE ELSE 0)
  + (IF TagsInclude(note.tags, searchText) THEN TAG_SCORE ELSE 0)

\* Array.prototype.sort with a comparator that puts b first when Before(b, a):
\* a stable sort, equal elements keep their order
SortStable(list, Before(_, _)) ==
  LET Insert(sorted, x) ==
        LET ahead == {i \in 1..Len(sorted) : Before(x, sorted[i])}
            p == IF ahead = {} THEN Len(sorted) + 1
                 ELSE CHOOSE i \in ahead : \A j \in ahead : i <= j
        IN SubSeq(sorted, 1, p - 1) \o <<x>> \o SubSeq(sorted, p, Len(sorted))
      F[k \in 0..Len(list)] == IF k = 0 THEN <<>> ELSE Insert(F[k - 1], list[k])
  IN F[Len(list)]

\* results.sort((a, b) => calculateRelevanceScore(b) - calculateRelevanceScore(a))
SortByRelevance(results, q) ==
  LET scored == [i \in 1..Len(results) |->
                   [note |-> results[i], score |-> calculateRelevanceScore(results[i], q)]]
      sorted == SortStable(scored, LAMBDA x, y : x.score > y.score)
  IN [i \in 1..Len(sorted) |-> sorted[i].note]

\* the text search of handleSearch, before the sort
TextFilter(list, q) == SelectIdx(list, LAMBDA i : MatchesText(list[i], q))

\* The numbers of an embedding.  The mock embedding is a function of the text;
\* the model gives each of its texts a vector of two components whose norm
\* is 5, in place of the 1536 of the engine.
Components(emb) ==
  CASE emb[2] = "Alpha" -> <<3, 4>>
    [] emb[2] = "beta" -> <<4, 3>>
    [] emb[2] = "alpha costs" -> <<0, 5>>
    [] emb[2] = "roadmap" -> <<5, 0>>
    [] emb[2] = "beta notes" -> <<3, 4>>
    [] emb[2] = "ALPHA again" -> <<4, 3>>
    [] emb[2] = "item a" -> <<5, 0>>
    [] emb[2] = "item b" -> <<3, 4>>
    [] OTHER -> <<0, 5>>

HasEmbedding(note) == note.embedding # EmbNull /\ note.embedding # EmbUndef

Dot(a, b) ==
  LET F[i \in 0..Len(a)] == IF i = 0 THEN 0 ELSE F[i - 1] + a[i] * b[i]
  IN F[Len(a)]

\* Math.sqrt, on the squares the model's vectors give
Sqrt(n) == CHOOSE r \in 0..n : r * r = n

\* cosineSimilarity without its test for a norm of zero
cosineSimilarityNoZeroTest(a, b) ==
  [num |-> Dot(a, b), den |-> Sqrt(Dot(a, a)) * Sqrt(Dot(b, b))]

\* cosineSimilarity of two vectors of one length, as the fraction num / den
\* (vectors of different lengths make it throw: see semanticSearch)
cosineSimilarity(a, b) ==
  LET normA == Sqrt(Dot(a, a))
      normB == Sqrt(Dot(b, b))
  IN IF normA = 0 \/ normB = 0 THEN [num |-> 0, den |-> 1]
     ELSE [num |-> Dot(a, b), den |-> normA * normB]

\* x < y for two such fractions
SimLess(x, y) == x.num * y.den < y.num * x.den

\* {...note, similarity}
WithSimilarity(note, sim) ==
  [f \in DOMAIN note \cup {"similarity"} |->
     IF f = "similarity" THEN sim ELSE note[f]]

\* semanticSearch(query, notes): the notes with an embedding, scored, sorted by
\* similarity, the first SEARCH_LIMIT of them; [] when cosineSimilarity throws
semanticSearch(q, list) ==
  LET queryEmbedding == Components(getEmbedding(q))
      embedded == SelectIdx(list, LAMBDA i : HasEmbedding(list[i]))
      scoredNotes ==
        [i \in 1..Len(embedded) |->
           WithSimilarity(embedded[i],
             cosineSimilarity(queryEmbedding, Components(embedded[i].embedding)))]
      sorted == SortStable(scoredNotes, LAMBDA x, y : SimLess(y.similarity, x.similarity))
  IN IF \E i \in 1..Len(embedded) :
          Len(Components(embedded[i].embedding)) # Len(queryEmbedding)
     THEN <<>>
     ELSE SubSeq(sorted, 1, Min(SEARCH_LIMIT, Len(sorted)))

\* the notes of the corpora searched
SearchNote(id, t, c, s, g, e) ==
  [id |-> id, title |-> t, content |-> c, tags |-> g, summary |-> s, embedding |-> e,
   ownerId |-> Uid, sharedWith |-> {}, createdAt |-> 0, updatedAt |-> 0, versions |-> <<>>]

CorpusMixed ==
  << SearchNote(<<"k", 1>>, "Budget", "alpha costs", UNDEF, <<>>, getEmbedding("alpha costs")),
     SearchNote(<<"k", 2>>, "Eta", "", "About alpha", <<>>, EmbNull),
     SearchNote(<<"k", 3>>, "Alpha plan", "roadmap", "Plan for ALPHA", <<"Alpha">>,
                getEmbedding("roadmap")),
     SearchNote(<<"k", 4>>, "Gamma", "misc", "", <<"x", "Alphabet">>, EmbUndef),
     SearchNote(<<"k", 5>>, "Delta", "beta notes", "", NoTags, getEmbedding("beta notes")),
     SearchNote(<<"k", 6>>, "Zeta", "ALPHA again", "", <<>>, getEmbedding("ALPHA again")) >>

\* more notes with an embedding than the limit of semanticSearch
CorpusMany ==
  [i \in 1..SEARCH_LIMIT + 1 |->
     LET c == CASE i % 3 = 0 -> "item a" [] i % 3 = 1 -> "item b" [] OTHER -> "item c"
     IN SearchNote(<<"m", i>>, "Item", c, UNDEF, <<"beta">>, getEmbedding(c))]

Corpora == {CorpusMixed, CorpusMany}

Queries == {"", "  ", "Alpha", "beta"}

\* the debounce effect of the SearchBar, run when query or notes changed: its
\* cleanup has cleared the timeout; a blank query calls onClear, any other arms
\* a timeout whose handleSearch is that of this render
SearchEffectTimer(q, list, type) ==
  IF IsBlank(q) THEN NoTimer
  ELSE [armed |-> TRUE, left |-> SEARCH_DELAY, query |-> q, notes |-> list, type |-> type]

\* the input's onChange: setQuery
SetQuery(q) ==
  /\ ~showEditor /\ inputs < MaxInputs
  /\ q # query
  /\ inputs' = inputs + 1
  /\ query' = q
  /\ searchTimer' = SearchEffectTimer(q, notes, searchType)
  /\ filteredNotes' = IF IsBlank(q) THEN handleClearSearch(notes) ELSE filteredNotes
  /\ UNCHANGED <<searchType, isSearching, searches, delivered>>
  /\ UNCHANGED <<store, notes, showEditor, editingNote, title, content, tags, summary,
                 embedding, aiProcessing, aiTimer, saveTimer, runs, regens, nextUuid,
                 draft, trace, now, gwVars, engine>>

\* the Text Search / AI Search buttons: setSearchType; the effect does not
\* depend on searchType and does not re-run
SetSearchType(type) ==
  /\ ~showEditor /\ inputs < MaxInputs
  /\ type # searchType
  /\ inputs' = inputs + 1
  /\ searchType' = type
  /\ UNCHANGED <<filteredNotes, query, isSearching, searchTimer, searches, delivered>>
  /\ UNCHANGED <<store, notes, showEditor, editingNote, title, content, tags, summary,
                 embedding, aiProcessing, aiTimer, saveTimer, runs, regens, nextUuid,
                 draft, trace, now, gwVars, engine>>

\* the clear button, rendered for a non-empty query while not searching:
\* handleClear, then the effect for the empty query
handleClear ==
  /\ ~showEditor /\ inputs < MaxInputs
  /\ query # "" /\ ~isSearching
  /\ inputs' = inputs + 1
  /\ query' = ""
  /\ filteredNotes' = handleClearSearch(notes)
  /\ searchTimer' = SearchEffectTimer("", notes, searchType)
  /\ UNCHANGED <<searchType, isSearching, searches, delivered>>
  /\ UNCHANGED <<store, notes, showEditor, editingNote, title, content, tags, summary,
                 embedding, aiProcessing, aiTimer, saveTimer, runs, regens, nextUuid,
                 draft, trace, now, gwVars, engine>>

\* Dashboard: handleDeleteNote on a listed note, then the SearchBar's effect
\* for the new notes
handleDeleteNote(i) ==
  /\ ~showEditor /\ inputs < MaxInputs
  /\ i \in 1..Len(notes)
  /\ inputs' = inputs + 1
  /\ notes' = RemoveAt(notes, i)
  /\ store' = notes'
  /\ filteredNotes' = notes'
  /\ searchTimer' = SearchEffectTimer(query, notes', searchType)
  /\ UNCHANGED <<query, searchType, isSearching, searches, delivered>>
  /\ UNCHANGED <<showEditor, editingNote, title, content, tags, summary,
                 embedding, aiProcessing, aiTimer, saveTimer, runs, regens, nextUuid,
                 draft, trace, now, gwVars, engine>>

\* onResults(results) of a handleSearch that ran in the given render
Delivery(cl, results) ==
  [mode |-> cl.type, query |-> cl.query, corpus |-> cl.notes, results |-> results]

\* the search timeout fires: handleSearch.  A text search filters, sorts and
\* calls onResults at once; a semantic search awaits semanticSearch.
SearchTimerFire ==
  /\ Due(searchTimer)
  /\ searchTimer' = NoTimer
  /\ IF searchTimer.type = "text"
     THEN LET results == SortByRelevance(TextFilter(searchTimer.notes, searchTimer.query),
                                         searchTimer.query) IN
          /\ filteredNotes' = results
          /\ delivered' = Delivery(searchTimer, results)
          /\ isSearching' = FALSE
          /\ UNCHANGED searches
     ELSE /\ isSearching' = TRUE
          /\ searches' = Append(searches, searchTimer)
          /\ UNCHANGED <<filteredNotes, delivered>>
  /\ UNCHANGED <<query, searchType>>
  /\ UNCHANGED <<store, notes, showEditor, editingNote, title, content, tags, summary,
                 embedding, aiProcessing, aiTimer, saveTimer, runs, regens, nextUuid,
                 draft, inputs, trace, now, gwVars, engine>>

\* semanticSearch answers: handleSearch sorts its results by relevance score,
\* calls onResults and clears isSearching
SearchSettle(i) ==
  /\ ~showEditor
  /\ i \in 1..Len(searches)
  /\ LET cl == searches[i]
         results == SortByRelevance(semanticSearch(cl.query, cl.notes), cl.query) IN
     /\ filteredNotes' = results
     /\ delivered' = Delivery(cl, results)
  /\ isSearching' = FALSE
  /\ searches' = RemoveAt(searches, i)
  /\ UNCHANGED <<query, searchType, searchTimer>>
  /\ UNCHANGED <<store, notes, showEditor, editingNote, title, content, tags, summary,
                 embedding, aiProcessing, aiTimer, saveTimer, runs, regens, nextUuid,
                 draft, inputs, trace, now, gwVars, engine>>

DeleteIdx == {1, 3}

SearchTypes == {"text", "semantic"}

SearchNext ==
  \/ \E q \in Queries : SetQuery(q)
  \/ \E type \in SearchTypes : SetSearchType(type)
  \/ handleClear
  \/ \E i \in DeleteIdx : handleDeleteNote(i)
  \/ SearchTimerFire
  \/ \E i \in 1..MaxInputs : SearchSettle(i)
  \/ EdTick

\* a Dashboard over one of the corpora, its editor closed
SearchInit ==
  /\ GwInit
  /\ \E corpus \in Corpora : EdInitWith(corpus)
  /\ engine = NoEngine

SpecSearch == SearchInit /\ [][SearchNext]_vars

----------------------------------------------------------------------------
(* The engine's functions called on their own (services/ai.js) *)

\* the pieces the texts are made of: markup, escaped markup, text, whitespace
Tokens == {"<b>", "</b>", "&lt;", "&gt;", "&amp;", "x", " ", "\n"}

RECURSIVE TextsOf(_)
TextsOf(n) ==
  IF n = 0 THEN {""}
  ELSE LET shorter == TextsOf(n - 1)
       IN shorter \cup {t \o k : t \in shorter, k \in Tokens}

Texts == TextsOf(MaxTokens)

\* ---- cleanTextForAI

NormalizeInit ==
  /\ GwInit /\ EdInit
  /\ \E t \in Texts : engine = [op |-> "normalize", text |-> t, out |-> <<>>]

\* cleanTextForAI applied to the text, then to what it returned
Normalize ==
  /\ engine.op = "normalize"
  /\ Len(engine.out) < 2
  /\ engine' = [engine EXCEPT !.out =
                  Append(@, cleanTextForAI(IF @ = <<>> THEN engine.text ELSE @[Len(@)]))]
  /\ UNCHANGED <<now, gwVars, edVars, seVars>>

SpecNormalize == NormalizeInit /\ [][Normalize]_vars

\* ---- cosineSimilarity

VecValues == {-4, -3, 0, 3, 4}

RECURSIVE VectorsOf(_)
VectorsOf(n) ==
  IF n = 0 THEN {<<>>}
  ELSE LET shorter == VectorsOf(n - 1)
       IN shorter \cup {Append(v, x) : v \in shorter, x \in VecValues}

IsSquare(n) == \E r \in 0..n : r * r = n

\* the vectors of at most MaxDim components whose norm is a whole number
Vectors == {v \in VectorsOf(MaxDim) : IsSquare(Dot(v, v))}

IsZeroVector(v) == \A i \in 1..Len(v) : v[i] = 0

\* a call of cosineSimilarity: it throws on vectors of different lengths and
\* returns the similarity otherwise
cosineSimilarityCall(a, b) ==
  IF Len(a) # Len(b)
  THEN [threw |-> TRUE, value |-> [num |-> 0, den |-> 1]]
  ELSE [threw |-> FALSE, value |-> cosineSimilarity(a, b)]

CosineInit ==
  /\ GwInit /\ EdInit
  /\ \E a \in Vectors, b \in Vectors : engine = [op |-> "cosine", a |-> a, b |-> b, out |-> <<>>]

Cosine ==
  /\ engine.op = "cosine"
  /\ engine.out = <<>>
  /\ engine' = [engine EXCEPT !.out = <<cosineSimilarityCall(engine.a, engine.b)>>]
  /\ UNCHANGED <<now, gwVars, edVars, seVars>>

SpecCosine == CosineInit /\ [][Cosine]_vars

\* ---- getEmbedding

EMBEDDING_SIZE == 1536
WORD == 65536

\* String.prototype.charCodeAt on the characters of the model's texts
CodeOf ==
  [ch \in AlphaChars \cup {"<", ">", "/", "&", ";", " ", "\n"} |->
     CASE ch = "<" -> 60 [] ch = ">" -> 62 [] ch = "/" -> 47 [] ch = "&" -> 38
       [] ch = ";" -> 59 [] ch = " " -> 32 [] ch = "\n" -> 10
       [] OTHER -> LET i == CHOOSE i \in 1..Len(AsciiAlpha) : Char(AsciiAlpha, i) = ch
                   IN IF i <= 26 THEN 96 + i ELSE 38 + i]

\* simpleHash: hash = ((hash << 5) - hash) + char; hash = hash & hash, in 32
\* bits; the hash is kept as its two 16-bit halves while it is computed
simpleHash(str) ==
  LET F[i \in 0..Len(str)] ==
        IF i = 0 THEN <<0, 0>>
        ELSE LET lo == 31 * F[i - 1][2] + CodeOf[Char(str, i)]
                 hi == 31 * F[i - 1][1] + (lo \div WORD)
             IN <<hi % WORD, lo % WORD>>
      h == F[Len(str)]
  IN IF h[1] >= WORD \div 2 THEN (h[1] - WORD) * WORD + h[2] ELSE h[1] * WORD + h[2]

\* generateMockEmbedding with every component taken from the state the calls
\* share: the number of calls made so far
generateMockEmbeddingPerCall(text) ==
  [i \in 1..EMBEDDING_SIZE |-> simpleHash(text) + (i - 1) + Len(engine.out)]

\* generateMockEmbedding: 1536 components, component i (from 0) being
\* (Math.sin(seed) + Math.cos(seed * 2)) / 2 of seed = hash + i; a component
\* is given by its seed
generateMockEmbedding(text) ==
  [i \in 1..EMBEDDING_SIZE |-> simpleHash(text) + (i - 1)]

\* the texts of a second call: the text again, and the text written another way
Rewrites(t) == {t, " " \o t, t \o "\n", t \o "x"}

\* the texts of a first call; a second call adds a piece to them
EmbeddingTexts == TextsOf(MaxTokens - 1)

EmbeddingInit ==
  /\ GwInit /\ EdInit
  /\ \E t \in EmbeddingTexts : engine = [op |-> "embedding", text |-> t, out |-> <<>>]

\* getEmbedding(t) with the AI disabled: the mock embedding of the clean text
GetEmbedding(t) ==
  /\ engine.op = "embedding"
  /\ Len(engine.out) < 2
  /\ engine' = [engine EXCEPT !.out =
                  Append(@, [text |-> t,
                             vector |-> generateMockEmbedding(cleanTextForAI(t))])]
  /\ UNCHANGED <<now, gwVars, edVars, seVars>>

EmbeddingNext == \E t \in Rewrites(engine.text) : GetEmbedding(t)

SpecEmbedding == EmbeddingInit /\ [][EmbeddingNext]_vars

----------------------------------------------------------------------------
(* Claims on the gateway *)

IsPrefix(a, b) == Len(a) <= Len(b) /\ SubSeq(b, 1, Len(a)) = a

Completed(op) == done.op = op /\ done.status = "returned"

\* C1: under any interleaving of updates of one note, a step never removes or
\* overwrites an entry of a stored version history: the history before the
\* step is a prefix of the history after it, and a step that completes an
\* update leaves the note's history exactly one entry longer.
C1_VersionsAppendOnly ==
  [][/\ \A id \in DOMAIN remote \cap DOMAIN remote' :
          /\ IsPrefix(remote[id].versions, remote'[id].versions)
          /\ Len(remote'[id].versions) <= Len(remote[id].versions) + 1
     /\ Len(local') = Len(local) =>
          \A i \in 1..Len(local) :
             /\ IsPrefix(local[i].versions, local'[i].versions)
             /\ Len(local'[i].versions) <= Len(local[i].versions) + 1]_vars

\* C7: a create or update that returned a note returned one with at least one
\* version whose last version holds the note's current content.
C7_LastVersionHoldsContent ==
  (Completed("create") \/ Completed("update")) =>
     /\ Len(done.result.versions) >= 1
     /\ done.result.versions[Len(done.result.versions)].content = done.result.content

\* C8: an update whose content equals the stored content returns the note's
\* version history unchanged.
C8_SameContentAppendsNothing ==
  (Completed("update") /\ done.upd.content = done.cur.content) =>
     done.result.versions = done.cur.versions

\* C9: a create, update or delete on a note the requester may access never
\* throws when a remote request failed: it completes through the local store.
C9_RemoteFailureNotSurfaced ==
  ~(/\ done.op \in {"create", "update", "delete"}
    /\ done.status = "threw"
    /\ done.remoteFailed
    /\ done.held)

\* C10: a read by the owner returns the note whenever the local store holds
\* it, or the remote store holds it and answers.
C10_ReadFindsCreatedNote ==
  (/\ done.op = "read"
   /\ \/ done.owned = "local"
      \/ done.owned = "remote" /\ ~done.remoteFailed) =>
     done.result.id = done.id

----------------------------------------------------------------------------
(* Claims about the editor session, checked under SpecEditor *)

\* C2: within one editing session at most one enrichment run is in flight
\* at any time.
C2_OneRunInFlight == Len(runs) <= 1

\* C3: no autosave write executes while an enrichment run of the session is
\* in flight, and no autosave timer is armed from the start of a run until
\* that run has ended.
C3_NoAutosaveDuringEnrichment ==
  /\ runs # <<>> => saveTimer = NoTimer
  /\ trace.write.by = "autosave" => ~trace.write.running

HoldsSaved(list) ==
  \E i \in 1..Len(list) :
    list[i].title = trace.write.title /\ list[i].content = trace.write.content

\* C4: after an explicit Save no autosave timer is pending, and the note as
\* the Save wrote it is in the store: the Save made the write itself and no
\* autosave write follows it.
C4_SaveCancelsAutosave ==
  trace.write.by = "save" =>
    /\ saveTimer = NoTimer
    /\ ~showEditor
    /\ HoldsSaved(store)

C4_Witness ==
  /\ trace.write.by = "save"
  /\ trace.write.pending
  /\ saveTimer = NoTimer
  /\ HoldsSaved(store)

\* a burst of edits is over: the debounce delay has passed since the last
\* edit and the timeout it set, if any, has fired
BurstOver ==
  /\ showEditor
  /\ trace.burstEdits >= 1
  /\ trace.sinceEdit = AI_DELAY
  /\ aiTimer = NoTimer

\* C5 as stated: a burst of content edits, each within the debounce delay of
\* the previous one, ends in exactly one enrichment run, on the content of
\* the last edit.
C5_ExactlyOneRunPerBurst ==
  BurstOver => trace.burstRuns = 1 /\ trace.started = content

\* C5: a burst of content edits, each within the debounce delay of the
\* previous one, starts at most one enrichment run; it starts exactly one,
\* on the content of the last edit, when that content has at least
\* MIN_AI_CONTENT characters, and none when it is shorter.  The only
\* timeout pending is the one of the last edit.
C5_OneRunOnSubstantialLastEdit ==
  /\ trace.burstRuns <= 1
  /\ aiTimer # NoTimer =>
       /\ aiTimer.content = content
       /\ aiTimer.left = AI_DELAY - trace.sinceEdit
  /\ BurstOver =>
       IF Len(content) >= MIN_AI_CONTENT
       THEN trace.burstRuns = 1 /\ trace.started = content
       ELSE trace.burstRuns = 0

C5_Witness ==
  /\ BurstOver
  /\ trace.burstEdits = 2
  /\ trace.burstRuns = 1
  /\ trace.started = content

\* C6: once every started run of the session has settled, summary and
\* embedding are those computed from the content of the run started last.
C6_ResultsInStartOrder ==
  (showEditor /\ runs = <<>> /\ trace.started # UNDEF) =>
    /\ summary = getSummary(trace.started)
    /\ embedding = getEmbedding(trace.started)

----------------------------------------------------------------------------
(* Claims about access, fallback and enrichment in the gateway, checked     *)
(* under SpecGateway                                                        *)

\* the step completes a call of the gateway
Completes == done'.n # done.n

\* C11: an update or a delete issued by an identity other than the note's
\* owner, an identity listed in sharedWith included, leaves the stored note
\* unchanged and present.
C11_OnlyOwnerMutates ==
  [][ (Completes /\ done'.op \in {"update", "delete"}) =>
        /\ \A id \in DOMAIN remote :
             (done'.id = id /\ done'.user # remote[id].ownerId) =>
               id \in DOMAIN remote' /\ remote'[id] = remote[id]
        /\ \A i \in 1..Len(local) :
             (done'.id = local[i].id /\ done'.user # local[i].ownerId) =>
               \E j \in 1..Len(local') : local'[j] = local[i]
    ]_vars

InLocal(note) == \E i \in 1..Len(local) : local[i] = note

\* C12: a create whose remote call fails returns a note that carries a
\* generated id, the requesting owner's id and a version history of at least
\* one entry holding the given title and content, and the note is in the
\* local fallback store afterwards.
C12_FallbackCreateReturnsNote ==
  (done.op = "create" /\ done.remoteFailed) =>
    /\ done.status = "returned"
    /\ done.path = "local"
    /\ done.result.id # NoId
    /\ done.result.id = LocalId(done.result.createdAt)
    /\ done.result.ownerId = done.user
    /\ Len(done.result.versions) >= 1
    /\ done.result.versions[1].title = done.upd.title
    /\ done.result.versions[1].content = done.upd.content
    /\ InLocal(done.result)

C12_Witness ==
  /\ done.op = "create" /\ done.remoteFailed
  /\ done.result.content = LongA
  /\ done.result.title = "T1"
  /\ InLocal(done.result)

\* C13: a create that falls back to the local store returns a note equal to
\* the one the remote path returns for the same input in every field other
\* than id and timestamps: the same summary, tags and embedding in particular.
C13_FallbackCreateEquivalent ==
  (done.op = "create" /\ done.status = "returned" /\ done.path = "local") =>
    LET r == NewRemoteNote(done.upd, done.user, done.result.id, done.result.createdAt)
    IN /\ done.result.title = r.title
       /\ done.result.content = r.content
       /\ done.result.ownerId = r.ownerId
       /\ done.result.summary = r.summary
       /\ done.result.tags = r.tags
       /\ done.result.embedding = r.embedding

\* C14: read(id, requester) returns the note only when the requester is the
\* note's owner or is listed in its sharedWith; on denied access, an unknown
\* id or a failure of the store it returns not-found, and it raises no error.
C14_ReadOnlyForReaders ==
  done.op = "read" =>
    /\ done.status = "returned"
    /\ done.result # NoNote =>
         /\ done.result.id = done.id
         /\ done.result.ownerId = done.user \/ done.user \in done.result.sharedWith
    /\ done.remoteFailed => done.result = NoNote
    /\ ~done.held => done.result = NoNote

C14_Witness ==
  /\ done.op = "read"
  /\ done.result # NoNote
  /\ done.user = "bob"
  /\ done.result.ownerId = "alice"

OwnedLocally(list, noteId, userId) ==
  \E i \in 1..Len(list) : list[i].id = noteId /\ list[i].ownerId = userId

\* C15: delete(id, requester) returns true only if the note is no longer in
\* the store that held it, and a delete of a note that does not exist or
\* that the requester has no access to returns false and leaves both stores
\* unchanged.
C15_DeleteResult ==
  [][ (Completes /\ done'.op = "delete") =>
        /\ done'.status = "returned"
        /\ done'.ok =>
             /\ done'.id \notin DOMAIN remote'
             /\ ~OwnedLocally(local', done'.id, done'.user)
             /\ \/ done'.cur # NoNote
                \/ OwnedLocally(local, done'.id, done'.user)
        /\ (issued' # issued /\ ~HeldBy(done'.id, done'.user)) =>
             ~done'.ok /\ remote' = remote /\ local' = local
    ]_vars

C15_Witness ==
  /\ done.op = "delete"
  /\ done.ok
  /\ done.path = "local"
  /\ ~OwnedLocally(local, done.id, done.user)

\* C16: share succeeds only for the owner: a share by a requester that is not
\* the note's ownerId returns false and leaves the note, its sharedWith and
\* updatedAt included, unchanged.
C16_ShareOnlyByOwner ==
  [][ (Completes /\ done'.op = "share") =>
        /\ done'.status = "returned"
        /\ done'.ok =>
             /\ done'.cur.ownerId = done'.user
             /\ done'.id \in DOMAIN remote'
             /\ remote'[done'.id].sharedWith = done'.emails
        /\ (done'.id \in DOMAIN remote /\ remote[done'.id].ownerId # done'.user) =>
             /\ ~done'.ok
             /\ remote' = remote
             /\ local' = local
    ]_vars

C16_Witness ==
  /\ done.op = "share"
  /\ ~done.ok
  /\ ~done.remoteFailed
  /\ done.id \in DOMAIN remote
  /\ done.user \in remote[done.id].sharedWith
  /\ done.user # remote[done.id].ownerId

SubsetOfTags(a, b) ==
  b # NoTags /\ \A i \in 1..Len(a) : \E j \in 1..Len(b) : b[j] = a[i]

\* C17: update re-runs enrichment if and only if the updated content differs
\* from the stored content, on the remote path and on the fallback path
\* alike: after a successful update that changed the content, summary, tags
\* and embedding are those computed from the new content; after one that did
\* not, summary and embedding are the stored ones.
C17_UpdateEnrichesChangedContent ==
  Completed("update") =>
    IF done.upd.content # UNDEF /\ done.upd.content # done.cur.content
    THEN /\ done.result.summary = getSummary(done.result.content)
         /\ done.result.embedding = getEmbedding(done.result.content)
         /\ SubsetOfTags(getTags(done.result.content), done.result.tags)
    ELSE /\ done.result.summary = done.cur.summary
         /\ done.result.embedding = done.cur.embedding

----------------------------------------------------------------------------
(* Claims about the notes the editor persists, checked under SpecEditor *)

\* C18: an editor save, autosave or explicit, that persists a content
\* different from the content of the note's last version appends exactly one
\* Version holding the saved title and content to the note's history.
C18_EditorSaveAppendsVersion ==
  LET w == trace.write IN
  (/\ w.by # "none"
   /\ w.prior = <<>> \/ w.prior[Len(w.prior)].content # w.content) =>
    /\ Len(w.versions) = Len(w.prior) + 1
    /\ SubSeq(w.versions, 1, Len(w.prior)) = w.prior
    /\ w.versions[Len(w.versions)].title = w.title
    /\ w.versions[Len(w.versions)].content = w.content

Ordered(note) == note.updatedAt >= note.createdAt

\* C19: every persisted note has updatedAt >= createdAt, after any sequence
\* of creates, updates and editor saves, the clock being free to advance
\* between two successive readings.
C19_UpdatedNotBeforeCreated ==
  /\ \A i \in 1..Len(store) : Ordered(store[i])
  /\ \A i \in 1..Len(local) : Ordered(local[i])
  /\ \A id \in DOMAIN remote : Ordered(remote[id])

----------------------------------------------------------------------------
(* Claims about the tags the gateway stores, checked under SpecGateway *)

\* C20: after a create or an update through the gateway the note's tags form
\* a set under case-insensitive comparison: no two entries of the tag list
\* are equal when compared ignoring case.
C20_TagsCaseInsensitiveSet ==
  ((Completed("create") \/ Completed("update")) /\ done.result.tags # NoTags) =>
    \A i, j \in 1..Len(done.result.tags) :
      i < j => Lower(done.result.tags[i]) # Lower(done.result.tags[j])

----------------------------------------------------------------------------
(* The editor under the scheduling the browser gives: a timeout that is due  *)
(* runs, time passes, and an engine call that was made returns                *)

EngineReturns == \E i \in 1..MaxInputs : AiSettle(i) \/ AiFail(i)

SpecEditorFair ==
  /\ Init /\ [][EdNext]_vars
  /\ WF_vars(EngineReturns)
  /\ WF_vars(AiTimerFire)
  /\ WF_vars(SaveTimerFire)
  /\ WF_vars(EdTick)

\* C21: every enrichment run that is started eventually ends, by success or by
\* failure of the engine calls, and when no run is left the processing flag
\* is false: the session is never left stuck in processing.
C21_RunsEndNotProcessing == (runs # <<>>) ~> (runs = <<>> /\ ~aiProcessing)

\* a new note, still open, whose only run was started and failed: it has ended
\* without a summary and the flag is false
C21_Witness ==
  /\ showEditor /\ ~HasExisting
  /\ trace.started # UNDEF /\ runs = <<>> /\ summary = ""
  /\ ~aiProcessing

\* the user's inputs have stopped in an open session that has a title or a content
EditsStopped == showEditor /\ inputs = MaxInputs /\ (title # "" \/ content # "")

\* no enrichment is pending or in flight, and the auto-save timer has written,
\* after the last input, a note with the session's title (or 'Untitled' for
\* none), content and tags
AutosavedLatest ==
  /\ runs = <<>> /\ aiTimer = NoTimer
  /\ trace.write.by = "autosave" /\ trace.write.at = inputs
  /\ trace.write.title = OrElse(title, "Untitled")
  /\ trace.write.content = content
  /\ trace.write.tags = tags

\* C22: with a title or a content, once the user's edits have stopped and the
\* enrichment in flight has settled, an auto-save write is executed that
\* persists the latest title, content and tags, unless the user closes the editor.
C22_AutosaveAfterQuiet == EditsStopped ~> (~showEditor \/ AutosavedLatest)

\* the auto-save of a session whose run has settled and merged new tags
C22_Witness ==
  /\ EditsStopped /\ AutosavedLatest
  /\ trace.started # UNDEF /\ summary # "" /\ tags # <<>>

----------------------------------------------------------------------------
(* Claims about saves, drafts and tags in the editor, checked under SpecEditor *)

\* C23: a save with an empty title and an empty content, by the auto-save
\* timeout or by the Save button, writes nothing to the store and adds no note
\* to the Dashboard's notes.
C23_EmptySaveIsNoOp ==
  [][ ( \/ (Save /\ title = "" /\ content = "")
        \/ (SaveTimerFire /\ saveTimer.cl.title = "" /\ saveTimer.cl.content = "") )
      => (store' = store /\ notes' = notes) ]_vars

\* C24: the draft of a new, never-saved note survives a reload: when the
\* editor is next mounted for a new note, its title, content and tags are
\* those of the draft that was stored before the reload.
C24_DraftSurvivesReload ==
  [][ (OpenNew /\ trace.reloaded /\ draft # NoDraft)
      => (title' = draft.title /\ content' = draft.content /\ tags' = draft.tags) ]_vars

\* C25: when a run's result is applied, the session's tags become its existing
\* tags followed by the engine's tags, without the entries that repeat an
\* earlier one case-insensitively: the first occurrence keeps place and casing.
C25_TagsMergedIntoExisting ==
  [][ \A i \in 1..MaxInputs :
        AiSettle(i) => tags' = MergeTags(tags, getTags(runs[i].content)) ]_vars

----------------------------------------------------------------------------
(* Claim about the enrichment threshold, checked under SpecEditorMarkup *)

\* the content is below the engine's summary threshold: its normalized plain
\* text has fewer than 50 characters
BelowThreshold(c) == Len(cleanTextForAI(c)) < SUMMARY_MIN

\* C26: a content whose normalized plain text is shorter than the engine's
\* minimum of 50 characters never has an enrichment timeout armed and never
\* has an enrichment run started on it.
C26_ShortTextSchedulesNothing ==
  /\ aiTimer # NoTimer => ~BelowThreshold(aiTimer.content)
  /\ \A i \in 1..Len(runs) : ~BelowThreshold(runs[i].content)

----------------------------------------------------------------------------
(* Claim about the Regenerate button, checked under SpecEditorRegenerate *)

\* the summary-generation calls in flight: one per run, one per regenerate call
SummaryCalls == Len(runs) + Len(regens)

\* C27: a regenerate request does not add a second concurrent call: while a
\* regenerate call is in flight it is the only summary-generation call of the
\* session in flight.
C27_RegenerateNeverConcurrent == regens # <<>> => SummaryCalls <= 1

----------------------------------------------------------------------------
(* Claims about the search, checked under SpecSearch *)

\* the place of a note in a list that holds it
PosIn(list, note) == CHOOSE i \in 1..Len(list) : list[i].id = note.id

\* C28: in semantic mode the results delivered are exactly the notes with a
\* stored embedding, at most 10 of them and then those of greatest similarity,
\* in the order of non-increasing cosine similarity to the query's embedding;
\* a note without an embedding never appears.
C28_SemanticRankedBySimilarity ==
  delivered.mode = "semantic" =>
    LET c == delivered.corpus
        r == delivered.results
        q == Components(getEmbedding(delivered.query))
        Sim(note) == cosineSimilarity(q, Components(note.embedding))
        embedded == {i \in 1..Len(c) : HasEmbedding(c[i])}
        Shown(i) == \E k \in 1..Len(r) : r[k].id = c[i].id
    IN /\ \A k \in 1..Len(r) : \E i \in embedded : c[i].id = r[k].id
       /\ Len(r) = Min(10, Cardinality(embedded))
       /\ \A k, l \in 1..Len(r) : k < l => ~SimLess(Sim(r[k]), Sim(r[l]))
       /\ \A i \in embedded :
            ~Shown(i) => \A k \in 1..Len(r) : ~SimLess(Sim(r[k]), Sim(c[i]))

\* C29: in lexical mode the results delivered are exactly the notes in which
\* the lower-cased query occurs, case ignored, in the title, the summary, the
\* content or a tag; with the score 10 for the title, 7 for a tag, 5 for the
\* summary and 2 for the content, summed, they are in non-increasing order of
\* score, notes of equal score in the order of the corpus.
C29_LexicalMatchesRanked ==
  delivered.mode = "text" =>
    LET c == delivered.corpus
        r == delivered.results
        q == toLowerCase(delivered.query)
        In(field) == field # UNDEF /\ includes(toLowerCase(field), q)
        InTag(note) ==
          note.tags # NoTags
          /\ \E i \in 1..Len(note.tags) : includes(toLowerCase(note.tags[i]), q)
        Score(note) ==
            (IF In(note.title) THEN 10 ELSE 0) + (IF InTag(note) THEN 7 ELSE 0)
          + (IF In(note.summary) THEN 5 ELSE 0) + (IF In(note.content) THEN 2 ELSE 0)
        hits == {i \in 1..Len(c) :
                   In(c[i].title) \/ In(c[i].summary) \/ In(c[i].content) \/ InTag(c[i])}
    IN /\ Len(r) = Cardinality(hits)
       /\ \A i \in hits : \E k \in 1..Len(r) : r[k] = c[i]
       /\ \A k, l \in 1..Len(r) :
            k < l => \/ Score(r[k]) > Score(r[l])
                     \/ Score(r[k]) = Score(r[l]) /\ PosIn(c, r[k]) < PosIn(c, r[l])

\* a text search that left a note out, moved a note ahead of an earlier one
\* and kept two notes of equal score in their order
C29_Witness ==
  /\ delivered.mode = "text"
  /\ LET c == delivered.corpus
         r == delivered.results
     IN /\ 3 <= Len(r) /\ Len(r) < Len(c)
        /\ \E k, l \in 1..Len(r) : k < l /\ PosIn(c, r[k]) > PosIn(c, r[l])
        /\ \E k \in 1..Len(r) - 1 :
             calculateRelevanceScore(r[k], delivered.query)
               = calculateRelevanceScore(r[k + 1], delivered.query)

\* C30: on every step that makes the query empty or whitespace-only, the
\* notes displayed become the whole corpus, not an empty list, and no search
\* timeout is left pending.
C30_BlankQueryShowsAll ==
  [][ (IsBlank(query') /\ ~IsBlank(query))
      => (filteredNotes' = notes' /\ filteredNotes' # <<>> /\ searchTimer' = NoTimer) ]_vars

\* a search had narrowed the display; the query is blank again and every note
\* is displayed
C30_Witness ==
  /\ IsBlank(query) /\ searchTimer = NoTimer /\ searches = <<>>
  /\ delivered.mode # "none" /\ Len(delivered.results) < Len(notes)
  /\ filteredNotes = notes /\ notes # <<>>

\* C31: cleanTextForAI is idempotent: applied to its own result it returns
\* that result, for texts with markup and with entity-escaped markup.
C31_NormalizeIdempotent ==
  (engine.op = "normalize" /\ Len(engine.out) = 2) => engine.out[2] = engine.out[1]

IsCosineOfZero ==
  /\ engine.op = "cosine" /\ engine.out # <<>>
  /\ Len(engine.a) = Len(engine.b)
  /\ IsZeroVector(engine.a) \/ IsZeroVector(engine.b)

\* C32: cosineSimilarity on two vectors of one length, one of them at least
\* all zero, returns 0: it does not throw and does not divide by zero.
C32_ZeroVectorGivesZero ==
  IsCosineOfZero =>
    /\ ~engine.out[1].threw
    /\ engine.out[1].value.den # 0
    /\ engine.out[1].value.num = 0

\* a zero vector against a vector that is not zero, of two components
C32_Witness ==
  /\ IsCosineOfZero
  /\ Len(engine.a) = 2
  /\ IsZeroVector(engine.a) /\ ~IsZeroVector(engine.b)

----------------------------------------------------------------------------
(* Claims on the editor's tags, writes and stored fields *)

\* C34: applying an enrichment result removes no tag of the session: every
\* tag in the tag list just before the result is applied, whenever the user
\* added it, is in the list afterwards, case ignored.
C34_ResultKeepsTags ==
  [][ \A i \in 1..MaxInputs :
        AiSettle(i) =>
          \A k \in 1..Len(tags) : \E l \in 1..Len(tags') : Lower(tags'[l]) = Lower(tags[k]) ]_vars

\* C35: for a new note, an autosave that follows an autosave of the same
\* editing session adds no entry to the stored notes: it writes under the id
\* of the first, so the session leaves at most one entry for the note.
C35_AutosavesShareOneEntry ==
  [][ (SaveTimerFire /\ ~HasExisting /\ trace.write.by = "autosave")
        => Len(store') = Len(store) ]_vars

\* the summary and the embedding of the closure are empty or those of its
\* content; a note opened and persisted with its content untouched keeps the
\* fields it was stored with
StoresOwnFields(cl) ==
  \/ HasExisting /\ cl.content = editingNote.content
  \/ /\ cl.summary \in {"", getSummary(cl.content)}
     /\ cl.embedding \in {EmbNull, getEmbedding(cl.content)}

\* C36: whenever the editor persists a note, by autosave or by Save, the
\* summary and the embedding persisted are those computed from the content
\* persisted, or are empty: never those of an older content.
C36_PersistsFieldsOfContent ==
  [][ /\ (SaveTimerFire /\ store' # store) => StoresOwnFields(saveTimer.cl)
      /\ Save => StoresOwnFields(Closure(title, content, tags, summary, embedding)) ]_vars

\* every stored note but the one of the given id is stored unchanged after the step
KeepsOthers(id) ==
  \A k \in 1..Len(store) :
    store[k].id # id => \E l \in 1..Len(store') : store'[l] = store[k]

\* C37: saving or deleting a note through the Dashboard removes and alters no
\* other note of the stored notes, the notes an autosave wrote there after
\* the Dashboard loaded its collection included.
C37_SaveAndDeleteKeepOthers ==
  [][ /\ Save => KeepsOthers(IF HasExisting THEN editingNote.id ELSE NoId)
      /\ \A i \in 1..MaxInputs : handleDeleteNote(i) => KeepsOthers(notes[i].id) ]_vars

----------------------------------------------------------------------------
(* Claim on the search results and the current query *)

\* C38: the results displayed belong to the query entered last: every search
\* that hands over results, a semantic search that was awaiting its answer
\* included, was made for the query the search bar holds at that moment, so
\* none replaces the results of a newer query or the notes shown for a
\* cleared query.
C38_ResultsOfCurrentQuery ==
  [][ /\ (SearchTimerFire /\ searchTimer.type = "text") => searchTimer.query = query
      /\ \A i \in 1..MaxInputs : SearchSettle(i) => searches[i].query = query ]_vars

----------------------------------------------------------------------------
(* Claim on the ids of the local fallback store *)

\* C39: the notes of the local fallback store have pairwise distinct ids,
\* whatever creates were made, two creates at one reading of the clock
\* included.
C39_LocalIdsDistinct ==
  \A k, l \in 1..Len(local) : k # l => local[k].id # local[l].id

=============================================================================
